---- MODULE Spec2Model ----
(***************************************************************************)
(* Logging facility of stefutil: handler construction, logger              *)
(* (re)configuration, record routing and ANSI stripping, as implemented in *)
(* stefutil/prettier/prettier_log.py and, in its earlier form, in          *)
(* stefutil/prettier.py; the value renderer PrettyLogger of                *)
(* stefutil/prettier.py; and the utilities ordinal, MlPrettier, Timer,     *)
(* CheckArg, MyProgressCallback and LogStep.                               *)
(*                                                                         *)
(* Text is a sequence of characters.  A character is a one-element string; *)
(* a few elements stand for a run of characters that always stay together  *)
(* (the escape character "ESC", the substituted record fields such as      *)
(* "<asctime>", the level abbreviations).                                  *)
(***************************************************************************)
EXTENDS Integers, Sequences, FiniteSets, TLC

\* Bounds of the exploration.
NumMsgs == 3        \* how many of the sample messages are logged
MaxHandlers == 3    \* add_log_handler is not called past this many handlers
MaxTextLen == 2     \* length of the texts given to PrettyLogger.s
MaxOrdinal == 125   \* the largest n given to ordinal
MaxBars == 4        \* a callback opens no more than this many progress bars
MaxTime == 5        \* the clock a Timer reads stops here, in seconds

VARIABLES
    impl,       \* which module's functions the program uses
    loggers,    \* the logging registry: logger name -> logger object
    lastCall,   \* the most recent call: operation, arguments, outcome
    emitted,    \* what the handlers wrote during the most recent call
    rendered,   \* the most recent PrettyLogger call: arguments and outcome
    called,     \* the most recent call of a plain function: arguments and outcome
    check_arg,  \* a CheckArg registry: its options and the most recent call on it
    timer,      \* a Timer object and the most recent call on it
    callback    \* a MyProgressCallback object, its bars and the most recent event

\* The objects apart from the logging facility and PrettyLogger.
utilVars == <<called, check_arg, timer, callback>>

vars == <<impl, loggers, lastCall, emitted, rendered, utilVars>>

------------------------------------------------------------------------------
(* Text and ANSI stripping *)

ESC == "ESC"

\* 7-bit C1 Fe bytes [@-Z\\-_]
C1Fe == {"N"}
\* CSI parameter bytes [0-?]
ParamBytes == {"0", "1", "2", "3", "4", "5", "6", "7", "8", "9", ";", ":", "=",
               "<asctime>", "<lineno>"}
\* CSI intermediate bytes [ -/]
IntermBytes == {" ", "%", ",", "+", "-", "."}
\* CSI final bytes [@-~]
FinalBytes == {"m", "s", "a", "b", "c", "e", "N", "T", "F", "[", "]", "|", "{", "}",
               "<name>", "<funcName>", "<filename>", "<levelname>", "<rmv>", "p",
               "DBG", "INFO", "WARN", "ERR", "CRIT"}

RECURSIVE SkipWhile(_, _, _)
SkipWhile(txt, i, cls) ==
    IF i <= Len(txt) /\ txt[i] \in cls THEN SkipWhile(txt, i + 1, cls) ELSE i

\* The position right after the match of _ansi_escape that starts at i, or i
\* when the pattern does not match there.
AnsiMatchEnd(txt, i) ==
    IF txt[i] # ESC \/ i + 1 > Len(txt) THEN i
    ELSE IF txt[i + 1] \in C1Fe THEN i + 2
    ELSE IF txt[i + 1] = "["
         THEN LET j == SkipWhile(txt, i + 2, ParamBytes)
                  k == SkipWhile(txt, j, IntermBytes)
              IN  IF k <= Len(txt) /\ txt[k] \in FinalBytes THEN k + 1 ELSE i
    ELSE i

RECURSIVE AnsiSub(_, _)
AnsiSub(txt, i) ==
    IF i > Len(txt) THEN <<>>
    ELSE LET e == AnsiMatchEnd(txt, i)
         IN  IF e > i THEN AnsiSub(txt, e) ELSE <<txt[i]>> \o AnsiSub(txt, i + 1)

filter_ansi_keep(txt) == txt

filter_ansi(txt) == AnsiSub(txt, 1)

HasAnsi(txt) == \E i \in 1..Len(txt) : AnsiMatchEnd(txt, i) > i

\* sty / colorama escape codes used by the formatter and by styled text.
RESET == <<ESC, "[", "0", "m">>
green == <<ESC, "[", "3", ";", "0", "m">>
blue == <<ESC, "[", "3", ";", "3", "m">>
purple == <<ESC, "[", "3", ";", ";", "m">>
yellow == <<ESC, "[", "3", "3", "m">>
red == <<ESC, "[", "3", "0", "m">>

\* s.i("a"): the text in the info style, followed by a reset.
StyledA == blue \o <<"a">> \o RESET

\* s.s(text, **style): the text wrapped in the style's escape sequence and a
\* trailing reset.
Style(text, code) == code \o text \o RESET

------------------------------------------------------------------------------
(* Levels *)

LOG_STR2LOG_LEVEL ==
    [detail |-> 10, debug |-> 10, info |-> 20, warning |-> 30, error |-> 40,
     critical |-> 50]

\* The level names given to get_logger and get_logging_handler.
LevelInputs == {"debug", "warning"}

\* The levels records are logged at: logger.info and logger.warning.
RecordLevels == {"info", "warning"}

\* A level argument: None, a level name, or a dict keyed by "stdout" / "file"
\* (an absent key is "").
NoLevel == [tag |-> "none", str |-> "", stdout |-> "", file |-> ""]
StrLevel(n) == [tag |-> "str", str |-> n, stdout |-> "", file |-> ""]
DictLevel(s, f) == [tag |-> "dict", str |-> "", stdout |-> s, file |-> f]

DictKeys(level) == {k \in {"stdout", "file"} : level[k] # ""}

_level2int_level(level) == LOG_STR2LOG_LEVEL[level]

MaxLevel(level) ==
    LET vals == {_level2int_level(level[k]) : k \in DictKeys(level)}
    IN  CHOOSE v \in vals : \A w \in vals : v >= w

\* min over the dict's values, as levels.
MinLevel(level) ==
    LET vals == {_level2int_level(level[k]) : k \in DictKeys(level)}
    IN  CHOOSE v \in vals : \A w \in vals : v <= w

------------------------------------------------------------------------------
(* MyFormatter *)

LVL_MAP == [l \in {10, 20, 30, 40, 50} |->
    CASE l = 10 -> [abv |-> "DBG", style |-> RESET]
      [] l = 20 -> [abv |-> "INFO", style |-> RESET]
      [] l = 30 -> [abv |-> "WARN", style |-> yellow]
      [] l = 40 -> [abv |-> "ERR", style |-> red]
      [] l = 50 -> [abv |-> "CRIT", style |-> purple \o <<ESC, "[", "0", ";", "m">>]]

KW_MSG == "<message>"

\* fmt_meta of prettier_log.py.
fmt_meta(with_color, l) ==
    IF with_color
    THEN <<"[">> \o Style(<<"<name>">>, blue) \o <<"]">>
         \o Style(<<":", ":">>, purple) \o Style(<<"<funcName>">>, blue)
         \o Style(<<":", ":">>, purple) \o Style(<<"<filename>">>, blue)
         \o Style(<<":">>, purple) \o Style(<<"<lineno>">>, blue)
         \o Style(<<":">>, purple) \o Style(<<LVL_MAP[l].abv>>, LVL_MAP[l].style)
    ELSE <<"[", "<name>", "]", " ", "<funcName>", ":", ":", "<filename>", ":",
           "<lineno>", ",", " ", LVL_MAP[l].abv>>

\* args2fmt of prettier_log.py.
args2fmt(with_color, l) ==
    IF with_color
    THEN Style(<<"<asctime>">>, green) \o Style(<<"|">>, purple)
         \o fmt_meta(with_color, l) \o Style(<<":", " ">>, purple)
         \o <<KW_MSG>> \o RESET
    ELSE <<"<asctime>", "|">> \o fmt_meta(with_color, l) \o <<":", KW_MSG>>

\* fmt_meta of prettier.py.
old_fmt_meta(with_color, l) ==
    IF with_color
    THEN purple \o <<"[", "<name>", "]">> \o blue \o <<":", ":">>
         \o purple \o <<"<funcName>">> \o blue \o <<":", ":">>
         \o purple \o <<"<filename>">> \o blue \o <<":">>
         \o purple \o <<"<lineno>">> \o blue \o <<":">>
         \o LVL_MAP[l].style \o <<LVL_MAP[l].abv>> \o RESET
    ELSE <<"[", "<name>", "]", " ", "<funcName>", ":", ":", "<filename>", ":",
           "<lineno>", ",", " ", LVL_MAP[l].abv>>

\* args2fmt of prettier.py.
old_args2fmt(with_color, l) ==
    IF with_color
    THEN green \o <<"<asctime>">> \o blue \o <<"|">> \o RESET
         \o old_fmt_meta(with_color, l) \o blue \o <<":", " ">> \o RESET
         \o <<KW_MSG>> \o RESET
    ELSE <<"<asctime>", "|", " ">> \o old_fmt_meta(with_color, l)
         \o <<":", " ", KW_MSG>>

\* record.getMessage(): msg % args when there are args, else msg.
RECURSIVE PercentFormat(_, _)
PercentFormat(msg, args) ==
    IF msg = <<>> THEN <<>>
    ELSE IF Len(msg) >= 2 /\ msg[1] = "%" /\ msg[2] = "s" /\ args # <<>>
         THEN Head(args) \o PercentFormat(SubSeq(msg, 3, Len(msg)), Tail(args))
    ELSE <<Head(msg)>> \o PercentFormat(Tail(msg), args)

getMessage(rec) == IF rec.args = <<>> THEN rec.msg ELSE PercentFormat(rec.msg, rec.args)

\* fmt % record fields: the message takes the place of %(message)s, which each
\* format string holds once.
Substitute(fmt, message) ==
    LET i == CHOOSE j \in 1..Len(fmt) : fmt[j] = KW_MSG
    IN  SubSeq(fmt, 1, i - 1) \o message \o SubSeq(fmt, i + 1, Len(fmt))

\* self.formats of MyFormatter.__init__, per module and with_color: the format
\* string of each level.
formats ==
    [f \in {"prettier_log", "prettier"} |-> [c \in BOOLEAN |->
        [l \in DOMAIN LVL_MAP |->
            IF f = "prettier_log" THEN args2fmt(c, l) ELSE old_args2fmt(c, l)]]]

\* The format of the root logger's handler (logging.BASIC_FORMAT).
BasicFormat == <<"<levelname>", ":", "<name>", ":", KW_MSG>>

\* MyFormatter.format, per handler.
Format(h, rec) ==
    LET fmt == IF h.fmt = "basic" THEN BasicFormat
               ELSE formats[h.fmt][h.with_color][rec.levelno]
    IN  Substitute(fmt, getMessage(rec))

------------------------------------------------------------------------------
(* Handlers *)

None == <<>>                      \* no file path
append_ext_same(file_path) == file_path

AppendExt(file_path) == file_path \o <<".ansi">>     \* AnsiFileMap.append_ext

\* AnsiFileMap.insert_before_log
insert_before_log(file_path) ==
    (IF file_path # <<>> /\ file_path[Len(file_path)] = ".log"
     THEN SubSeq(file_path, 1, Len(file_path) - 1)
     ELSE file_path) \o <<".ansi", ".log">>

\* map_ = ansi_file_map or AnsiFileMap.append_ext, applied to the path.
AnsiFileMaps == {"None", "append_ext", "insert_before_log"}
map_(ansi_file_map, file_path) ==
    IF ansi_file_map = "insert_before_log" THEN insert_before_log(file_path)
    ELSE AppendExt(file_path)

FileHandlerClasses == {"FileHandler", "CleanAnsiFileHandler"}

isStreamHandler(h) == h.cls \in FileHandlerClasses \cup {"StreamHandler"}

isFileHandler(h) == h.cls \in FileHandlerClasses   \* isinstance(h, logging.FileHandler)

\* The level a base handler takes from the level argument; 0 is NOTSET, the
\* level of a handler that set_level was not called on.
HandlerLevel(kind, level) ==
    LET lv == IF level.tag = "dict"
              THEN level[IF kind = "stdout" THEN "stdout" ELSE "file"]
              ELSE level.str
    IN  IF lv = "" THEN 0 ELSE LOG_STR2LOG_LEVEL[lv]

FilterNameFile(kind) == "file"

\* The handler name its HandlerFilter is given.
FilterName(kind) == kind

\* Outcome of a call that builds handlers: the exception raised ("" when
\* none) and the handlers returned.
Raised(e) == [err |-> e, hs |-> <<>>]
Built(hs) == [err |-> "", hs |-> hs]

BaseHandlerAnyPath(kind, file_path, level) ==
    IF kind # "stdout" /\ kind \notin {"file", "file-w/-ansi"} THEN Raised("AssertionError")
    ELSE Built(<<[cls |-> CASE kind = "stdout" -> "StreamHandler"
                            [] kind = "file" -> "CleanAnsiFileHandler"
                            [] OTHER -> "FileHandler",
                  name |-> FilterName(kind),
                  level |-> HandlerLevel(kind, level),
                  with_color |-> kind \in {"stdout", "file-w/-ansi"},
                  path |-> IF kind = "stdout" THEN None ELSE file_path,
                  fmt |-> "prettier_log"]>>)

\* get_logging_handler of prettier_log.py, base cases.
BaseHandler(kind, file_path, level) ==
    IF kind # "stdout" /\ kind \notin {"file", "file-w/-ansi"} THEN Raised("AssertionError")
    ELSE IF kind # "stdout" /\ file_path = None THEN Raised("ValueError")
    ELSE IF level.tag = "dict" /\ level[IF kind = "stdout" THEN "stdout" ELSE "file"] = ""
         THEN Raised("KeyError")
    ELSE Built(<<[cls |-> CASE kind = "stdout" -> "StreamHandler"
                            [] kind = "file" -> "CleanAnsiFileHandler"
                            [] OTHER -> "FileHandler",
                  name |-> FilterName(kind),
                  level |-> HandlerLevel(kind, level),
                  with_color |-> kind \in {"stdout", "file-w/-ansi"},
                  path |-> IF kind = "stdout" THEN None ELSE file_path,
                  fmt |-> "prettier_log"]>>)

\* get_logging_handler of prettier_log.py.
get_logging_handler(kind, file_path, level, ansi_file_map) ==
    IF kind \in {"both", "both+ansi", "file+ansi"}
    THEN LET fl == BaseHandler("file", file_path, level)
             std == IF kind \in {"both", "both+ansi"}
                    THEN BaseHandler("stdout", None, level)
                    ELSE Built(<<>>)
             fl_ansi == IF kind \in {"both+ansi", "file+ansi"}
                        THEN BaseHandler("file-w/-ansi", map_(ansi_file_map, file_path), level)
                        ELSE Built(<<>>)
         IN  IF fl.err # "" THEN fl
             ELSE IF std.err # "" THEN std
             ELSE IF fl_ansi.err # "" THEN fl_ansi
             ELSE Built(std.hs \o fl_ansi.hs \o fl.hs)
    ELSE BaseHandler(kind, file_path, level)

\* get_logging_handler of prettier.py.
old_base_handler(kind, file_path) ==
    IF kind # "stdout" /\ file_path = None THEN Raised("ValueError")
    ELSE Built(<<[cls |-> IF kind = "stdout" THEN "StreamHandler"
                          ELSE "CleanAnsiFileHandler",
                  name |-> kind,
                  level |-> 10,
                  with_color |-> kind = "stdout",
                  path |-> IF kind = "stdout" THEN None ELSE file_path,
                  fmt |-> "prettier"]>>)

old_get_logging_handler(kind, file_path) ==
    IF kind = "both"
    THEN LET std == old_base_handler("stdout", None)
             fl == old_base_handler("file", file_path)
         IN  IF fl.err # "" THEN fl ELSE Built(std.hs \o fl.hs)
    ELSE old_base_handler(kind, file_path)

------------------------------------------------------------------------------
(* Records and their way through the handlers (logging.Logger) *)

\* The handler of the root logger, the ancestor of every named logger.
RootHandler ==
    [cls |-> "StreamHandler", name |-> "", level |-> 0,
     with_color |-> FALSE, path |-> None, fmt |-> "basic"]

\* The root logger's level, logging.WARNING.
RootLevel == LOG_STR2LOG_LEVEL["warning"]

NoRec == [levelno |-> 0, msg |-> <<>>, args |-> <<>>, block |-> ""]

HandlerFilterPass(h, rec) == TRUE

\* HandlerFilter.filter
HandlerFilter(h, rec) ==
    IF rec.block # "" /\ h.name = rec.block THEN FALSE ELSE TRUE

\* What emit leaves in the record: CleanAnsiFileHandler.emit assigns the
\* stripped text to record.msg.
EmitRecord(h, rec) ==
    IF h.cls = "CleanAnsiFileHandler" THEN [rec EXCEPT !.msg = filter_ansi(@)]
    ELSE rec

\* Logger.callHandlers: each handler in turn, from position i on, on the one
\* record object.  A line written is kept with the position of its handler.
RECURSIVE callHandlers(_, _, _)
callHandlers(hs, i, rec) ==
    IF i > Len(hs) THEN <<>>
    ELSE LET h == hs[i]
             fires == rec.levelno >= h.level /\ HandlerFilter(h, rec)
             rec2 == IF fires THEN EmitRecord(h, rec) ELSE rec
         IN  (IF fires
              THEN <<[pos |-> i, name |-> h.name, cls |-> h.cls,
                      line |-> Format(h, rec2)]>>
              ELSE <<>>) \o callHandlers(hs, i + 1, rec2)

EffectiveLevel(lg) == IF lg.level # 0 THEN lg.level ELSE RootLevel

\* logger.debug / info / ... : the lines written, in order.
LoggerLog(lg, rec) ==
    IF rec.levelno < EffectiveLevel(lg) THEN <<>>
    ELSE callHandlers(lg.handlers \o (IF lg.propagate THEN <<RootHandler>> ELSE <<>>),
                      1, rec)

------------------------------------------------------------------------------
(* Operations on a logger *)

RemoveAt(hs, i) == SubSeq(hs, 1, i - 1) \o SubSeq(hs, i + 1, Len(hs))

\* The loop of drop_file_handler: `for h in logger.handlers` walks the list by
\* index while removeHandler shortens it.
RECURSIVE DropLoop(_, _, _)
DropLoop(hs, i, rmv) ==
    IF i > Len(hs) THEN [hs |-> hs, rmv |-> rmv]
    ELSE IF isFileHandler(hs[i]) THEN DropLoop(RemoveAt(hs, i), i + 1, Append(rmv, hs[i]))
    ELSE DropLoop(hs, i + 1, rmv)

\* f'Handlers {s.i(rmv)} removed'
DropMsg == <<"a", " ">> \o Style(<<"<rmv>">>, blue) \o <<" ", "a">>

\* drop_file_handler: the logger afterwards and the lines its info call wrote.
drop_file_handler(lg) ==
    LET r == DropLoop(lg.handlers, 1, <<>>)
        after == [lg EXCEPT !.handlers = r.hs]
    IN  [lg |-> after,
         out |-> IF Len(r.rmv) > 0
                 THEN LoggerLog(after, [levelno |-> 20, msg |-> DropMsg,
                                        args |-> <<>>, block |-> ""])
                 ELSE <<>>]

\* add_log_handler: handlers are built first, then prior file handlers are
\* dropped, then the new ones are attached.
add_log_handler(lg, level, file_path, kind, drop_prev_handlers) ==
    LET built == get_logging_handler(kind, file_path, level, "append_ext")
        dropped == IF drop_prev_handlers THEN drop_file_handler(lg)
                   ELSE [lg |-> lg, out |-> <<>>]
    IN  IF built.err # "" THEN [lg |-> lg, out |-> <<>>, err |-> built.err]
        ELSE [lg |-> [dropped.lg EXCEPT !.handlers = @ \o built.hs],
              out |-> dropped.out, err |-> ""]

\* add_file_handler
add_file_handler(lg, file_path, kind, drop_prev_handlers) ==
    IF kind \notin {"file", "file-w/-ansi", "file+ansi"}
    THEN [lg |-> lg, out |-> <<>>, err |-> "AssertionError"]
    ELSE add_log_handler(lg, NoLevel, file_path, kind, drop_prev_handlers)

\* The name of the logger get_logger configures.
FileLoggerName == [x |-> "x file"]       \* f'{name} file'
LoggerName(name, kind) == IF kind = "file-write" THEN FileLoggerName[name] ELSE name

\* get_logger, lines 510-520: whether each handler gets its own level.
need_detailed_filtering(level) == level.tag = "dict" /\ Cardinality(DictKeys(level)) > 1

\* get_logger, lines 511-521: the level the logger is set to.
LoggerLevel(level) ==
    IF need_detailed_filtering(level) THEN MinLevel(level)
    ELSE IF level.tag = "dict"
         THEN LOG_STR2LOG_LEVEL[level[CHOOSE k \in DictKeys(level) : TRUE]]
    ELSE LOG_STR2LOG_LEVEL[level.str]

ClearHandlersKept(hs) == hs

\* logger.handlers = []
ClearHandlers(hs) == <<>>

\* get_logger of prettier_log.py, after its kind check.
get_logger(lg, kind, level, file_path) ==
    LET cleared == [lg EXCEPT !.handlers = ClearHandlers(@), !.level = LoggerLevel(level)]
        added == add_log_handler(cleared,
                                 IF need_detailed_filtering(level) THEN level ELSE NoLevel,
                                 file_path, kind, TRUE)
    IN  IF added.err # "" THEN added
        ELSE [added EXCEPT !.lg.propagate = FALSE, !.lg.returned = TRUE]

\* get_logger of prettier.py, after its kind check.
old_get_logger(lg, kind, file_path) ==
    LET cleared == [lg EXCEPT !.handlers = ClearHandlers(@), !.level = 10]
        built == old_get_logging_handler(kind, file_path)
    IN  IF built.err # "" THEN [lg |-> cleared, out |-> <<>>, err |-> built.err]
        ELSE [lg |-> [cleared EXCEPT !.handlers = @ \o built.hs, !.propagate = FALSE,
                                     !.returned = TRUE],
              out |-> <<>>, err |-> ""]

\* f'Prior Handler {pl.i(h)} removed'
OldDropMsg == <<"p", " ">> \o Style(<<"<rmv>">>, blue) \o <<" ", "a">>

\* The loop of add_file_handler of prettier.py: walks logger.handlers by index
\* while removing, and logs after each removal.
RECURSIVE OldDropLoop(_, _, _)
OldDropLoop(lg, i, out) ==
    IF i > Len(lg.handlers) THEN [lg |-> lg, out |-> out]
    ELSE IF isFileHandler(lg.handlers[i])
         THEN LET after == [lg EXCEPT !.handlers = RemoveAt(@, i)]
              IN  OldDropLoop(after, i + 1,
                              out \o LoggerLog(after, [levelno |-> 20, msg |-> OldDropMsg,
                                                       args |-> <<>>, block |-> ""]))
    ELSE OldDropLoop(lg, i + 1, out)

\* add_file_handler of prettier.py.
old_add_file_handler(lg, file_path) ==
    LET built == old_get_logging_handler("file", file_path)
        dropped == OldDropLoop(lg, 1, <<>>)
    IN  IF built.err # "" THEN [lg |-> lg, out |-> <<>>, err |-> built.err]
        ELSE [lg |-> [dropped.lg EXCEPT !.handlers = @ \o built.hs],
              out |-> dropped.out, err |-> ""]

------------------------------------------------------------------------------
(* PrettyLogger of prettier.py: styled text *)

\* colorama escape codes
Fore == [YELLOW |-> <<ESC, "[", "3", "3", "m">>, RED |-> <<ESC, "[", "3", "1", "m">>,
         GREEN |-> <<ESC, "[", "3", "2", "m">>, BLUE |-> <<ESC, "[", "3", "4", "m">>,
         MAGENTA |-> <<ESC, "[", "3", "5", "m">>, RESET |-> <<ESC, "[", "3", "9", "m">>]
BackRESET == <<ESC, "[", "4", "9", "m">>
RESET_ALL == <<ESC, "[", "0", "m">>
BRIGHT == <<ESC, "[", "1", "m">>

\* PrettyLogger.reset
reset == Fore.RESET \o BackRESET \o RESET_ALL

\* PrettyLogger.key2c
key2c ==
    [log |-> <<>>, warn |-> Fore.YELLOW, error |-> Fore.RED, err |-> Fore.RED,
     success |-> Fore.GREEN, suc |-> Fore.GREEN, info |-> Fore.BLUE, i |-> Fore.BLUE,
     w |-> Fore.RED, y |-> Fore.YELLOW, yellow |-> Fore.YELLOW, red |-> Fore.RED,
     r |-> Fore.RED, green |-> Fore.GREEN, g |-> Fore.GREEN, blue |-> Fore.BLUE,
     b |-> Fore.BLUE, m |-> Fore.MAGENTA]

\* A style argument that is None, and one that is the empty string.
NoneC == "<None>"
EmptyC == ""

\* Outcome of a rendering call: the exception raised ("" when none) and the
\* string returned.
Fail(e) == [err |-> e, out |-> <<>>]
Ok(txt) == [err |-> "", out |-> txt]

\* f'{c}' for a style argument that is not a key of key2c.
StyleText(c) ==
    IF c = NoneC THEN <<"N", "o", "n", "e">> ELSE IF c = EmptyC THEN <<>> ELSE <<c>>

\* PrettyLogger.log(s, c, as_str=True, bold), s already a string.
log(txt, c, bold) ==
    LET isKey == c \in DOMAIN key2c
        code == IF isKey THEN key2c[c] ELSE StyleText(c)
        need_reset == isKey \/ bold
    IN  IF bold /\ c = NoneC THEN Fail("TypeError")
        ELSE Ok(code \o (IF bold THEN BRIGHT ELSE <<>>) \o txt
                \o (IF need_reset THEN reset ELSE <<>>))

\* PrettyLogger.s(s, c, bold, with_color)
pl_s(txt, c, bold, with_color) == log(txt, IF with_color THEN c ELSE EmptyC, bold)

------------------------------------------------------------------------------
(* PrettyLogger of prettier.py: values and their string forms *)

\* Python values: t is the type, v the content.  A dict is the sequence of its
\* (key, value) pairs in insertion order, its keys strings.  A float is its
\* significant digits d1 d2 ... dn and the decimal exponent e of d1.d2...dn.
PyString(txt) == [t |-> "str", v |-> txt]
PyInt(n) == [t |-> "int", v |-> n]
PyBool(b) == [t |-> "bool", v |-> b]
PyNone == [t |-> "NoneType", v |-> 0]
PyFloat(digits, e) == [t |-> "float", v |-> [digits |-> digits, e |-> e]]
PyList(vs) == [t |-> "list", v |-> vs]
PyTuple(vs) == [t |-> "tuple", v |-> vs]
PyDict(kvs) == [t |-> "dict", v |-> kvs]

DigitChars == <<"0", "1", "2", "3", "4", "5", "6", "7", "8", "9">>

\* str(n) for an int n >= 0
RECURSIVE IntStr(_)
IntStr(n) ==
    IF n < 10 THEN <<DigitChars[n + 1]>>
    ELSE IntStr(n \div 10) \o <<DigitChars[(n % 10) + 1]>>

Zeros(n) == [k \in 1..n |-> "0"]

\* str(f) for a float f > 0: repr gives the exponent form when the decimal
\* exponent is below -4 or at least 16, with an exponent of two digits or more.
FloatStr(f) ==
    LET ds == f.digits
        n == Len(ds)
        e == f.e
        absE == IF e < 0 THEN 0 - e ELSE e
        expDigits == IF absE < 10 THEN <<"0">> \o IntStr(absE) ELSE IntStr(absE)
    IN  IF e < -4 \/ e >= 16
        THEN <<ds[1]>> \o (IF n > 1 THEN <<".">> \o SubSeq(ds, 2, n) ELSE <<>>)
             \o <<"e", IF e < 0 THEN "-" ELSE "+">> \o expDigits
        ELSE IF e < 0 THEN <<"0", ".">> \o Zeros(absE - 1) \o ds
        ELSE IF e >= n - 1 THEN ds \o Zeros(e - (n - 1)) \o <<".", "0">>
        ELSE SubSeq(ds, 1, e + 1) \o <<".">> \o SubSeq(ds, e + 2, n)

\* str(v) of a value that is no container
PyStr(v) ==
    CASE v.t = "str" -> v.v
      [] v.t = "int" -> IntStr(v.v)
      [] v.t = "bool" -> IF v.v THEN <<"T", "r", "u", "e">> ELSE <<"F", "a", "l", "s", "e">>
      [] v.t = "NoneType" -> <<"N", "o", "n", "e">>
      [] v.t = "float" -> FloatStr(v.v)

\* txt.startswith(pat) at position k
StartsAt(txt, k, pat) ==
    k + Len(pat) - 1 <= Len(txt) /\ SubSeq(txt, k, k + Len(pat) - 1) = pat

\* txt.replace(old, new), from position k on
RECURSIVE Replace(_, _, _, _)
Replace(txt, k, old, new) ==
    IF k > Len(txt) THEN <<>>
    ELSE IF StartsAt(txt, k, old) THEN new \o Replace(txt, k + Len(old), old, new)
    ELSE <<txt[k]>> \o Replace(txt, k + 1, old, new)

\* f'{x:>{pad}}'
PadLeft(txt, pad) ==
    IF Len(txt) >= pad THEN txt ELSE [k \in 1..(pad - Len(txt)) |-> " "] \o txt

\* float_is_sci: the default string form has an exponent.
float_is_sci(f) == \E k \in 1..Len(FloatStr(f)) : FloatStr(f)[k] = "e"

_float_str(f, pad) == FloatStr(f)

\* PrettyLogger._float(f, pad); pad 0 stands for None.
_float(f, pad) ==
    IF float_is_sci(f)
    THEN Replace(Replace(FloatStr(f), 1, <<"e", "-", "0">>, <<"e", "-">>),
                 1, <<"e", "+", "0">>, <<"e", "+">>)
    ELSE IF pad # 0 THEN PadLeft(FloatStr(f), pad)
    ELSE FloatStr(f)

------------------------------------------------------------------------------
(* PrettyLogger of prettier.py: rendering values *)

\* Keyword arguments: a function from the names given to their values.
\* for_path is "False", "True" or "shorter-bool"; pad_float 0 stands for None.
NoKwargs == [k \in {} |-> 0]
Get(kwargs, k, default) == IF k \in DOMAIN kwargs THEN kwargs[k] ELSE default
Pop(kwargs, k) == [x \in DOMAIN kwargs \ {k} |-> kwargs[x]]
Truthy(for_path) == for_path # "False"

\* sep.join(parts) over the outcomes of rendering the parts: the first
\* exception raised, or the joined strings.
RECURSIVE Join(_, _)
Join(rs, sep) ==
    IF rs = <<>> THEN Ok(<<>>)
    ELSE IF rs[1].err # "" THEN rs[1]
    ELSE IF Len(rs) = 1 THEN rs[1]
    ELSE LET rest == Join(Tail(rs), sep)
         IN  IF rest.err # "" THEN rest ELSE Ok(rs[1].out \o sep \o rest.out)

RECURSIVE pl_i(_, _), _iter(_, _, _, _, _), _dict(_, _)

\* PrettyLogger._iter(it, with_color, pref, post, for_path)
_iter(it, with_color, pref, post, for_path) ==
    LET pref_ == IF with_color THEN pl_s(pref, "m", FALSE, TRUE).out ELSE pref
        post_ == IF with_color THEN pl_s(post, "m", FALSE, TRUE).out ELSE post
        lst == [k \in 1..Len(it) |-> pl_i(it[k], "with_color" :> with_color)]
        sep == IF Truthy(for_path) THEN <<",">> ELSE <<",", " ">>
        joined == Join(lst, sep)
    IN  IF joined.err # "" THEN joined ELSE Ok(pref_ \o joined.out \o post_)

\* PrettyLogger._list(lst, **kwargs): only with_color and for_path are parameters.
_list(lst, kwargs) ==
    IF ~(DOMAIN kwargs \subseteq {"with_color", "for_path"}) THEN Fail("TypeError")
    ELSE _iter(lst, Get(kwargs, "with_color", TRUE), <<"[">>, <<"]">>,
               Get(kwargs, "for_path", "False"))

\* PrettyLogger._tuple(tpl, **kwargs)
_tuple(tpl, kwargs) ==
    IF ~(DOMAIN kwargs \subseteq {"with_color", "for_path"}) THEN Fail("TypeError")
    ELSE _iter(tpl, Get(kwargs, "with_color", TRUE), <<"(">>, <<")">>,
               Get(kwargs, "for_path", "False"))

\* PrettyLogger._dict(d, **kwargs)
_dict(d, kwargs) ==
    LET with_color == Get(kwargs, "with_color", TRUE)
        pad_float == Get(kwargs, "pad_float", 0)
        pairs_sep == Get(kwargs, "pairs_sep", <<",", " ">>)
        for_path == Get(kwargs, "for_path", "False")
        omit_none_val == Get(kwargs, "omit_none_val", FALSE)
        sep0 == Get(kwargs, "key_value_sep", <<":", " ">>)
        sep1 == IF Truthy(for_path) THEN <<"=">> ELSE sep0
        key_value_sep == IF with_color THEN pl_s(sep1, "m", FALSE, TRUE).out ELSE sep1
        _log_val(v) ==
            IF v.t = "dict"
            THEN pl_i(v, ("with_color" :> with_color) @@ ("pad_float" :> pad_float)
                         @@ ("key_value_sep" :> key_value_sep)
                         @@ ("pairs_sep" :> pairs_sep) @@ ("for_path" :> for_path)
                         @@ ("omit_none_val" :> omit_none_val))
            ELSE IF v.t \in {"list", "tuple"}
            THEN pl_i(v, ("with_color" :> with_color) @@ ("for_path" :> for_path))
            ELSE IF for_path = "shorter-bool" /\ v.t = "bool"
            THEN Ok(IF v.v THEN <<"T">> ELSE <<"F">>)
            ELSE pl_i(v, ("with_color" :> with_color) @@ ("pad_float" :> pad_float))
        pair(kv) ==
            IF omit_none_val /\ kv[2].t = "NoneType" THEN Ok(kv[1])
            ELSE LET r == _log_val(kv[2])
                 IN  IF r.err # "" THEN r ELSE Ok(kv[1] \o key_value_sep \o r.out)
        pairs == Join([k \in 1..Len(d) |-> pair(d[k])], pairs_sep)
        pref == IF with_color THEN pl_s(<<"{">>, "m", FALSE, TRUE).out ELSE <<"{">>
        post == IF with_color THEN pl_s(<<"}">>, "m", FALSE, TRUE).out ELSE <<"}">>
    IN  IF Truthy(for_path) /\ with_color THEN Fail("AssertionError")
        ELSE IF pairs.err # "" THEN pairs
        ELSE Ok(pref \o pairs.out \o post)

\* PrettyLogger.i(s, **kwargs)
pl_i(v, kwargs) ==
    IF v.t = "dict" THEN _dict(v.v, kwargs)
    ELSE IF v.t = "list" THEN _list(v.v, kwargs)
    ELSE IF v.t = "tuple" THEN _tuple(v.v, kwargs)
    ELSE IF v.t = "float"
    THEN pl_i(PyString(_float(v.v, Get(kwargs, "pad_float", 0))), Pop(kwargs, "pad_float"))
    ELSE LET kwargs_ == Pop(kwargs, "pad_float")
         IN  IF ~(DOMAIN kwargs_ \subseteq {"c", "bold", "with_color"})
             THEN Fail("TypeError")
             ELSE pl_s(PyStr(v), Get(kwargs_, "c", "i"), Get(kwargs_, "bold", FALSE),
                       Get(kwargs_, "with_color", TRUE))

pl_pa_long_bool(v, shorter_bool, kwargs) ==
    pl_i(v, ("for_path" :> "True") @@ ("with_color" :> FALSE)
            @@ ("pairs_sep" :> <<",">>) @@ kwargs)

\* PrettyLogger.pa(s, shorter_bool, **kwargs)
pl_pa(v, shorter_bool, kwargs) ==
    IF v.t # "dict" THEN Fail("AssertionError")
    ELSE IF {"for_path", "with_color"} \cap DOMAIN kwargs # {} THEN Fail("TypeError")
    ELSE pl_i(v, ("for_path" :> IF shorter_bool THEN "shorter-bool" ELSE "True")
                 @@ ("with_color" :> FALSE) @@ ("pairs_sep" :> <<",">>) @@ kwargs)

pl_nc_with_color(v, kwargs) == pl_i(v, kwargs)

\* PrettyLogger.nc(s, **kwargs)
pl_nc(v, kwargs) ==
    IF "with_color" \in DOMAIN kwargs THEN Fail("TypeError")
    ELSE pl_i(v, ("with_color" :> FALSE) @@ kwargs)

------------------------------------------------------------------------------
(* Plain functions of prettier.py *)

\* ordinal(n) without the test for 11, 12 and 13.
ordinal_by_last_digit(n) ==
    LET k == IF n % 10 < 4 THEN n % 10 ELSE 4
    IN  IntStr(n) \o << <<"t", "h">>, <<"s", "t">>, <<"n", "d">>, <<"r", "d">>,
                       <<"t", "h">> >>[k + 1]

\* ordinal(n), n >= 0
ordinal(n) ==
    LET k == IF n % 10 < 4 THEN n % 10 ELSE 4
        suffix == IF 11 <= n % 100 /\ n % 100 <= 13
                  THEN <<"t", "h">>
                  ELSE << <<"t", "h">>, <<"s", "t">>, <<"n", "d">>, <<"r", "d">>,
                          <<"t", "h">> >>[k + 1]
    IN  IntStr(n) \o suffix

------------------------------------------------------------------------------
(* MlPrettier of prettier.py *)

\* round(val * 10^k) for an int or a positive float val, as an integer; the
\* floats formatted lie on no rounding boundary.
Scaled(val, k) ==
    LET RECURSIVE Pow10(_)
        Pow10(j) == IF j = 0 THEN 1 ELSE 10 * Pow10(j - 1)
        ds == val.v.digits
        RECURSIVE DigitsInt(_)
        DigitsInt(n) ==
            IF n = 0 THEN 0
            ELSE 10 * DigitsInt(n - 1) + (CHOOSE d \in 0..9 : DigitChars[d + 1] = ds[n])
        p == val.v.e - (Len(ds) - 1) + k
    IN  IF val.t = "int" THEN val.v * Pow10(k)
        ELSE IF p >= 0 THEN DigitsInt(Len(ds)) * Pow10(p)
        ELSE (DigitsInt(Len(ds)) + Pow10(0 - p) \div 2) \div Pow10(0 - p)

\* f'{q / 10^k:{width}.{k}f}' for an integer q >= 0 and k > 0
Fixed(q, k, width) ==
    LET RECURSIVE Pow10(_)
        Pow10(j) == IF j = 0 THEN 1 ELSE 10 * Pow10(j - 1)
        frac == IntStr(q % Pow10(k))
        txt == IntStr(q \div Pow10(k)) \o <<".">> \o Zeros(k - Len(frac)) \o frac
    IN  PadLeft(txt, width)

\* MlPrettier(ref=ref).single(key, val) for an int or a float val; ref is the
\* sequence of its (key, limit) pairs, metric_keys and with_color keep their
\* defaults.  The test of the last elif, `'perplexity' or 'ppl' in key`, is the
\* non-empty string 'perplexity' and so always true.
single(ref, key, val) ==
    LET StrIn(pat, txt) == \E k \in 1..Len(txt) : StartsAt(txt, k, pat)
        In(pat) == StrIn(pat, key)
        \* f'{val:.3e}'
        Sci3 ==
            LET n == IF val.t = "int" THEN Len(IntStr(val.v)) ELSE Len(val.v.digits)
                e == IF val.t = "int" THEN n - 1 ELSE val.v.e
                m == Scaled(val, 3 - e)
                carry == m >= 10000
                ds == IntStr(IF carry THEN m \div 10 ELSE m)
                e2 == IF carry THEN e + 1 ELSE e
                absE == IF e2 < 0 THEN 0 - e2 ELSE e2
            IN  <<ds[1], ".">> \o SubSeq(ds, 2, 4) \o <<"e", IF e2 < 0 THEN "-" ELSE "+">>
                \o (IF absE < 10 THEN <<"0">> ELSE <<>>) \o IntStr(absE)
        NoPrefix == {<<"e", "p", "o", "c", "h">>,
                     <<"g", "l", "o", "b", "a", "l", "_", "s", "t", "e", "p">>,
                     <<"s", "t", "e", "p">>}
        metric_keys == {<<"a", "c", "c">>, <<"p", "r", "e", "c", "i", "s", "i", "o", "n">>,
                        <<"r", "e", "c", "a", "l", "l">>, <<"f", "1">>, <<"a", "u", "c">>}
        ks == {i \in DOMAIN ref : StrIn(key, ref[i][1])}
    IN  IF key \in NoPrefix
        THEN IF ks = {} THEN Fail("StopIteration")
             ELSE LET lim == IntStr(ref[CHOOSE i \in ks : \A j \in ks : i <= j][2])
                      s_val == IF val.t = "int"
                               THEN PadLeft(IntStr(val.v), Len(lim))
                               ELSE Fixed(Scaled(val, 3), 3, Len(lim) + 4)
                  IN  Ok(PyString(s_val \o <<"/">> \o lim))
        ELSE IF In(<<"l", "o", "s", "s">>) THEN Ok(PyString(Fixed(Scaled(val, 4), 4, 7)))
        ELSE IF \E k \in metric_keys : In(k)
        THEN Ok(PyString(Fixed(Scaled(val, 4), 2, 6)))
        ELSE IF In(<<"l", "e", "a", "r", "n", "i", "n", "g", "_", "r", "a", "t", "e">>)
                \/ In(<<"l", "r">>)
        THEN Ok(PyString(Sci3))
        ELSE IF TRUE
        THEN Ok(PyString(Fixed(Scaled(val, 2), 2, 0)))
        ELSE Ok(val)

\* fmt_delta(secs) for a whole number of seconds
RECURSIVE fmt_delta(_)
fmt_delta(secs) ==
    IF secs >= 86400
    THEN IntStr(secs \div 86400) \o <<"d">> \o fmt_delta(secs % 86400)
    ELSE IF secs >= 3600
    THEN IntStr(secs \div 3600) \o <<"h">> \o fmt_delta(secs % 3600)
    ELSE IF secs >= 60
    THEN IntStr(secs \div 60) \o <<"m">> \o fmt_delta(secs % 60)
    ELSE IntStr(secs) \o <<"s">>

------------------------------------------------------------------------------
(* Timer of prettier.py *)

\* Timer(start) constructed at time now, in whole seconds; time_start and
\* time_end are -1 for None.  now is the time of the most recent call.
Timer(start, now) ==
    [time_start |-> IF start THEN now ELSE -1, time_end |-> -1, now |-> now,
     op |-> "__init__", err |-> "", ret |-> <<>>]

------------------------------------------------------------------------------
(* CheckArg *)

\* CheckArg(ignore_none) followed by the registration both modules make right
\* after they construct `ca`; verbose keeps its default False.  d_name2func maps
\* each registered attribute name to the options its lambda closes over.
CheckArg(ignore_none) ==
    [ignore_none |-> ignore_none,
     d_name2func |-> ("bar_orient" :> <<"v", "h", "vertical", "horizontal">>),
     op |-> "", attr_name |-> "", val |-> "", options |-> <<>>, silent |-> FALSE,
     err |-> "", ret |-> ""]

\* assert_options that lets None pass whatever ignore_none is.
assert_options_none_passes(self, val, options, silent) ==
    IF val = NoneC THEN [err |-> "", ret |-> "True"]
    ELSE IF val \notin {options[k] : k \in DOMAIN options}
         THEN IF silent THEN [err |-> "", ret |-> "False"]
              ELSE [err |-> "ValueError", ret |-> ""]
         ELSE [err |-> "", ret |-> "True"]

\* CheckArg.assert_options of prettier_log.py; the value None is NoneC.
\* CheckArg.check_mismatch of prettier.py is the same without the silent mode.
assert_options(self, val, options, silent) ==
    IF self.ignore_none /\ val = NoneC THEN [err |-> "", ret |-> "True"]
    ELSE IF val \notin {options[k] : k \in DOMAIN options}
         THEN IF silent THEN [err |-> "", ret |-> "False"]
              ELSE [err |-> "ValueError", ret |-> ""]
         ELSE [err |-> "", ret |-> "True"]

------------------------------------------------------------------------------
(* MyProgressCallback of prettier.py *)

\* MyProgressCallback(train_only).  training_bar and prediction_bar are 0 for
\* None and otherwise the position of the bar in bars, the tqdm objects created
\* so far, each with its total, the epoch number ep of its desc, leave, its
\* count n and whether it was closed; step_per_epoch and current_step are -1 for
\* None.  state is the
\* TrainerState the trainer passes to every event of the run under way, and
\* in_epoch and steps are the trainer's position in that run.
MyProgressCallback(train_only) ==
    [training_bar |-> 0, prediction_bar |-> 0, train_only |-> train_only,
     step_per_epoch |-> -1, current_step |-> -1, bars |-> <<>>,
     state |-> [max_steps |-> 0, num_train_epochs |-> 0, epoch |-> 0,
                is_local_process_zero |-> TRUE],
     in_train |-> FALSE, in_epoch |-> FALSE, steps |-> 0, op |-> "", err |-> ""]

------------------------------------------------------------------------------
(* LogStep of prettier.py *)

\* LogStep.__call__ that never blocks a handler.
LogStep_unblocked(lg, file_logger, d_log, to_console, to_file, prefix) ==
    LET info(msg) ==
            LoggerLog(lg, [levelno |-> LOG_STR2LOG_LEVEL["info"], msg |-> prefix \o msg,
                           args |-> <<>>, block |-> ""])
    IN  (IF to_console THEN info(pl_i(d_log, NoKwargs).out) ELSE <<>>)
        \o (IF to_file /\ file_logger /\ ~to_console
            THEN info(pl_nc(d_log, NoKwargs).out) ELSE <<>>)

\* LogStep.__call__(d_log, training=True, to_console, to_file, prefix) of a
\* LogStep(logger=lg, file_logger=file_logger) with file_logger None or True and
\* neither trainer, pbar nor tb_writer: the lines the handlers write.  The
\* prefix None is the empty text.
LogStep(lg, file_logger, d_log, to_console, to_file, prefix) ==
    LET logger_logs_file == file_logger
        info(msg, block) ==
            LoggerLog(lg, [levelno |-> LOG_STR2LOG_LEVEL["info"], msg |-> prefix \o msg,
                           args |-> <<>>, block |-> block])
    IN  (IF to_console
         THEN info(pl_i(d_log, NoKwargs).out,
                   IF logger_logs_file /\ ~to_file THEN "file" ELSE "")
         ELSE <<>>)
        \o (IF to_file /\ logger_logs_file /\ ~to_console
            THEN info(pl_nc(d_log, NoKwargs).out, "stdout")
            ELSE <<>>)

------------------------------------------------------------------------------
(* The program: calls on the logging facility *)

Names == {"x"}                          \* the names given to get_logger
LoggerNames == {"x", "x file"}          \* the loggers of the registry

Kinds == {"stdout", "file", "file-w/-ansi", "both", "both+ansi", "file+ansi",
          "file-write"}

Paths == {None, <<"p">>}

\* File paths given to get_logging_handler: none, plain, ending in '.log'.
HandlerPaths == Paths \cup {<<"p", ".log">>}

\* Level arguments given to get_logger: a name, or a dict with one or two keys.
GetLoggerLevels ==
    {StrLevel(n) : n \in LevelInputs}
    \cup ({DictLevel(a, b) : a \in LevelInputs \cup {""}, b \in LevelInputs \cup {""}}
          \ {DictLevel("", "")})

\* Level arguments given to add_log_handler and get_logging_handler.
HandlerLevels ==
    {NoLevel} \cup {StrLevel(n) : n \in LevelInputs}
    \cup {DictLevel(a, b) : a \in LevelInputs, b \in LevelInputs}

\* Sample records: plain text, styled text, a styled format argument, a plain
\* format argument, a C1 escape in the text.
SampleMsgs ==
    << [msg |-> <<"a">>, args |-> <<>>],
       [msg |-> StyledA, args |-> <<>>],
       [msg |-> <<"%", "s">>, args |-> <<StyledA>>],
       [msg |-> <<"a", "%", "s">>, args |-> << <<"a">> >>],
       [msg |-> <<ESC, "N", "a">>, args |-> <<>>] >>

Samples == {SampleMsgs[i] : i \in 1..NumMsgs}

Blocks == {"", "stdout", "file"}

FreshLogger == [handlers |-> <<>>, level |-> 0, propagate |-> TRUE, returned |-> FALSE]

NoCall ==
    [op |-> "", logger |-> "", kind |-> "", file_path |-> None, level |-> NoLevel,
     drop |-> FALSE, err |-> "", ret |-> <<>>, repeat |-> FALSE, rec |-> NoRec,
     ansi_file_map |-> "", file_logger |-> FALSE, to_console |-> FALSE,
     to_file |-> FALSE]

\* No PrettyLogger call made yet.
NoRender ==
    [op |-> "", name |-> "", arg |-> <<>>, c |-> "", bold |-> FALSE, kwargs |-> NoKwargs,
     shorter_bool |-> FALSE, pad |-> 0, err |-> "", out |-> <<>>]

\* No plain function called yet.
NoFunction == [op |-> "", n |-> 0, key |-> <<>>, val |-> <<>>, err |-> "", out |-> <<>>]

Init ==
    /\ impl \in {"prettier_log", "prettier"}
    /\ loggers = [n \in LoggerNames |-> FreshLogger]
    /\ lastCall = NoCall
    /\ emitted = <<>>
    /\ rendered = NoRender
    /\ called = NoFunction
    /\ check_arg = CheckArg(TRUE)
    /\ timer = Timer(TRUE, 0)
    /\ callback = MyProgressCallback(FALSE)

\* Whether this call repeats the previous one: get_logger on the same logger
\* with the same kind, both returning.
Repeats(op, n, kind, err) ==
    lastCall.op = op /\ lastCall.logger = n /\ lastCall.kind = kind
    /\ lastCall.err = "" /\ err = ""

\* get_logger(name, kind, level, file_path) of prettier_log.py
GetLogger(name, kind, level, file_path) ==
    /\ impl = "prettier_log"
    /\ IF kind \notin {"stdout", "file-write", "both", "both+ansi"}
       THEN /\ lastCall' = [NoCall EXCEPT !.op = "get_logger", !.logger = name,
                                          !.kind = kind, !.file_path = file_path,
                                          !.level = level, !.err = "AssertionError"]
            /\ emitted' = <<>>
            /\ UNCHANGED loggers
       ELSE LET n == LoggerName(name, kind)
                r == get_logger(loggers[n], kind, level, file_path)
            IN  /\ loggers' = [loggers EXCEPT ![n] = r.lg]
                /\ emitted' = r.out
                /\ lastCall' = [NoCall EXCEPT !.op = "get_logger", !.logger = n,
                                   !.kind = kind, !.file_path = file_path,
                                   !.level = level, !.err = r.err,
                                   !.repeat = Repeats("get_logger", n, kind, r.err)]
    /\ UNCHANGED <<impl, rendered, utilVars>>

\* get_logging_handler(kind, file_path, level, ansi_file_map) of prettier_log.py
GetLoggingHandler(kind, file_path, level, ansi_file_map) ==
    /\ impl = "prettier_log"
    /\ LET r == get_logging_handler(kind, file_path, level, ansi_file_map)
       IN  lastCall' = [NoCall EXCEPT !.op = "get_logging_handler", !.kind = kind,
                                      !.file_path = file_path, !.level = level,
                                      !.ansi_file_map = ansi_file_map,
                                      !.err = r.err, !.ret = r.hs]
    /\ emitted' = <<>>
    /\ UNCHANGED <<impl, loggers, rendered, utilVars>>

\* add_log_handler(logger, level, file_path, kind, drop_prev_handlers)
AddLogHandler(n, level, file_path, kind, drop) ==
    /\ impl = "prettier_log"
    /\ loggers[n].returned
    /\ LET r == add_log_handler(loggers[n], level, file_path, kind, drop)
       IN  /\ Len(r.lg.handlers) <= MaxHandlers
           /\ loggers' = [loggers EXCEPT ![n] = r.lg]
           /\ emitted' = r.out
           /\ lastCall' = [NoCall EXCEPT !.op = "add_log_handler", !.logger = n,
                              !.drop = drop, !.err = r.err]
    /\ UNCHANGED <<impl, rendered, utilVars>>

\* add_file_handler(logger, file_path, kind, drop_prev_handlers)
AddFileHandler(n, file_path, kind, drop) ==
    /\ impl = "prettier_log"
    /\ loggers[n].returned
    /\ LET r == add_file_handler(loggers[n], file_path, kind, drop)
       IN  /\ Len(r.lg.handlers) <= MaxHandlers
           /\ loggers' = [loggers EXCEPT ![n] = r.lg]
           /\ emitted' = r.out
           /\ lastCall' = [NoCall EXCEPT !.op = "add_file_handler", !.logger = n,
                              !.drop = drop, !.err = r.err]
    /\ UNCHANGED <<impl, rendered, utilVars>>

\* drop_file_handler(logger)
DropFileHandler(n) ==
    /\ impl = "prettier_log"
    /\ loggers[n].returned
    /\ LET r == drop_file_handler(loggers[n])
       IN  /\ loggers' = [loggers EXCEPT ![n] = r.lg]
           /\ emitted' = r.out
           /\ lastCall' = [NoCall EXCEPT !.op = "drop_file_handler", !.logger = n]
    /\ UNCHANGED <<impl, rendered, utilVars>>

\* logger.debug / info / warning / ... (msg, *args, extra=dict(block=...))
Log(n, levelName, sample, block) ==
    /\ loggers[n].returned
    /\ LET rec == [levelno |-> LOG_STR2LOG_LEVEL[levelName], msg |-> sample.msg,
                   args |-> sample.args, block |-> block]
       IN  /\ emitted' = LoggerLog(loggers[n], rec)
           /\ lastCall' = [NoCall EXCEPT !.op = "log", !.logger = n, !.rec = rec]
    /\ UNCHANGED <<impl, loggers, rendered, utilVars>>

\* get_logger(name, kind, file_path) of prettier.py
OldGetLogger(name, kind, file_path) ==
    /\ impl = "prettier"
    /\ IF kind \notin {"stdout", "file-write", "both"}
       THEN /\ lastCall' = [NoCall EXCEPT !.op = "get_logger", !.logger = name,
                                          !.kind = kind, !.file_path = file_path,
                                          !.err = "AssertionError"]
            /\ emitted' = <<>>
            /\ UNCHANGED loggers
       ELSE LET r == old_get_logger(loggers[name], kind, file_path)
            IN  /\ loggers' = [loggers EXCEPT ![name] = r.lg]
                /\ emitted' = r.out
                /\ lastCall' = [NoCall EXCEPT !.op = "get_logger", !.logger = name,
                                   !.kind = kind, !.file_path = file_path, !.err = r.err,
                                   !.repeat = Repeats("get_logger", name, kind, r.err)]
    /\ UNCHANGED <<impl, rendered, utilVars>>

\* get_logging_handler(kind, file_path) of prettier.py
OldGetLoggingHandler(kind, file_path) ==
    /\ impl = "prettier"
    /\ LET r == old_get_logging_handler(kind, file_path)
       IN  lastCall' = [NoCall EXCEPT !.op = "get_logging_handler", !.kind = kind,
                                      !.file_path = file_path, !.err = r.err,
                                      !.ret = r.hs]
    /\ emitted' = <<>>
    /\ UNCHANGED <<impl, loggers, rendered, utilVars>>

\* add_file_handler(logger, file_path) of prettier.py
OldAddFileHandler(n, file_path) ==
    /\ impl = "prettier"
    /\ loggers[n].returned
    /\ LET r == old_add_file_handler(loggers[n], file_path)
       IN  /\ loggers' = [loggers EXCEPT ![n] = r.lg]
           /\ emitted' = r.out
           /\ lastCall' = [NoCall EXCEPT !.op = "add_file_handler", !.logger = n,
                              !.drop = TRUE, !.err = r.err]
    /\ UNCHANGED <<impl, rendered, utilVars>>

\* Level arguments given to get_logger while the handlers are reconfigured.
ConfigLevels == {StrLevel("debug"), DictLevel("warning", "debug")}

\* Reconfiguration of a logger: every operation that attaches or removes
\* handlers.
Next ==
    \/ \E name \in Names, kind \in Kinds, level \in ConfigLevels, fp \in Paths :
           GetLogger(name, kind, level, fp)
    \/ \E n \in LoggerNames, fp \in Paths, kind \in Kinds, drop \in BOOLEAN :
           AddLogHandler(n, NoLevel, fp, kind, drop)
    \/ \E n \in LoggerNames, fp \in Paths, kind \in Kinds, drop \in BOOLEAN :
           AddFileHandler(n, fp, kind, drop)
    \/ \E n \in LoggerNames : DropFileHandler(n)
    \/ \E name \in Names, kind \in Kinds, fp \in Paths : OldGetLogger(name, kind, fp)
    \/ \E n \in LoggerNames, fp \in Paths : OldAddFileHandler(n, fp)

Spec == Init /\ [][Next]_vars

\* Logging through a logger that get_logger set up.
NextLog ==
    \/ \E name \in Names, kind \in Kinds, level \in GetLoggerLevels, fp \in Paths :
           GetLogger(name, kind, level, fp)
    \/ \E name \in Names, kind \in Kinds, fp \in Paths : OldGetLogger(name, kind, fp)
    \/ \E n \in LoggerNames, l \in RecordLevels, m \in Samples, b \in Blocks :
           Log(n, l, m, b)

SpecLog == Init /\ [][NextLog]_vars

\* Handler construction on its own.
NextHandler ==
    \/ \E kind \in Kinds, fp \in HandlerPaths, level \in HandlerLevels,
          map \in AnsiFileMaps :
           GetLoggingHandler(kind, fp, level, map)
    \/ \E kind \in Kinds, fp \in Paths : OldGetLoggingHandler(kind, fp)

SpecHandler == Init /\ [][NextHandler]_vars

\* Logging through a logger that had handlers attached after get_logger.
NextAttach ==
    \/ \E name \in Names, kind \in Kinds, fp \in Paths :
           GetLogger(name, kind, StrLevel("debug"), fp)
    \/ \E n \in LoggerNames, fp \in Paths, kind \in Kinds, drop \in BOOLEAN :
           AddLogHandler(n, NoLevel, fp, kind, drop)
    \/ \E n \in LoggerNames, l \in RecordLevels, m \in Samples, b \in Blocks :
           Log(n, l, m, b)

SpecAttach == Init /\ [][NextAttach]_vars

\* The characters of the texts that are styled: the bytes that make up an escape
\* sequence, but never the escape character itself.
TextChars == {"[", "0", "m"}

RECURSIVE TextsOfLen(_)
TextsOfLen(n) ==
    IF n = 0 THEN {<<>>}
    ELSE {<<ch>> \o t : ch \in TextChars, t \in TextsOfLen(n - 1)}

Texts == UNION {TextsOfLen(n) : n \in 0..MaxTextLen}

\* pl.s(text, c=key, bold=bold)
StyleCall(txt, c, bold) ==
    /\ LET r == pl_s(txt, c, bold, TRUE)
       IN  rendered' = [NoRender EXCEPT !.op = "s", !.arg = txt, !.c = c,
                                        !.bold = bold, !.err = r.err, !.out = r.out]
    /\ UNCHANGED <<impl, loggers, lastCall, emitted, utilVars>>

\* Styling text, with every key of the style table and one that is not in it.
NextStyle ==
    \E txt \in Texts, c \in DOMAIN key2c \cup {"pink"}, bold \in BOOLEAN :
        StyleCall(txt, c, bold)

SpecStyle == Init /\ [][NextStyle]_vars

\* Values given to the renderer: scalars of every type, a string that carries
\* styled text, floats on both sides of the exponent form, and containers nested
\* in each other in every combination.
A == <<"a">>
B == <<"b">>
C == <<"c">>
F3em5 == PyFloat(<<"3">>, -5)
F1ep5 == PyFloat(<<"1">>, 5)
BoolDict == PyDict(<< <<A, PyBool(TRUE)>>, <<B, PyBool(FALSE)>> >>)
RenderValues ==
    [str |-> PyString(A),
     styled |-> PyString(Fore.RED \o A \o reset),
     int |-> PyInt(1),
     bool |-> PyBool(TRUE),
     none |-> PyNone,
     f3em5 |-> F3em5,
     f847 |-> PyFloat(<<"8", "4", "7">>, 1),
     d_bool |-> BoolDict,
     d_nested |-> PyDict(<< <<A, PyInt(1)>>, <<B, BoolDict>> >>),
     d_none |-> PyDict(<< <<A, PyInt(1)>>, <<B, PyNone>>, <<C, PyInt(3)>> >>),
     d_nested_none |-> PyDict(<< <<A, PyDict(<< <<B, PyNone>> >>)>> >>),
     d_list |-> PyDict(<< <<A, PyList(<<PyBool(TRUE), PyInt(1)>>)>> >>),
     d_list_dict |-> PyDict(<< <<A, PyList(<<BoolDict>>)>> >>),
     d_tuple_list |-> PyDict(<< <<A, PyTuple(<<PyList(<<PyInt(1), PyInt(1)>>)>>)>> >>),
     d_float |-> PyDict(<< <<A, F3em5>>, <<B, PyString(A)>> >>),
     d_styled |-> PyDict(<< <<A, PyString(Fore.RED \o A \o reset)>> >>),
     d_empty |-> PyDict(<<>>),
     l_flat |-> PyList(<<PyInt(1), PyString(A)>>),
     l_nested |-> PyList(<<PyList(<<PyInt(1), PyBool(TRUE)>>), BoolDict, PyNone>>),
     t_flat |-> PyTuple(<<PyInt(1), PyBool(FALSE)>>),
     t_nested |-> PyTuple(<<PyTuple(<<PyInt(1)>>), F3em5>>)]

\* Floats given to _float: with and without an exponent in the default form.
RenderFloats ==
    {F3em5.v, F1ep5.v, [digits |-> <<"8", "4", "7">>, e |-> 1],
     [digits |-> <<"1", "5">>, e |-> 16], [digits |-> <<"1">>, e |-> -10],
     [digits |-> <<"5">>, e |-> -4]}

\* Keyword arguments given to pl.i: each of with_color, for_path and
\* omit_none_val given or left out.
WithColorArgs == {NoKwargs, "with_color" :> TRUE, "with_color" :> FALSE}
ForPathArgs == {NoKwargs, "for_path" :> "True", "for_path" :> "shorter-bool"}
OmitArgs == {NoKwargs, "omit_none_val" :> TRUE}
RenderKwargs == {a @@ b @@ c : a \in WithColorArgs, b \in ForPathArgs, c \in OmitArgs}

\* pl.i(value, **kwargs)
RenderI(name, kwargs) ==
    /\ LET r == pl_i(RenderValues[name], kwargs)
       IN  rendered' = [NoRender EXCEPT !.op = "i", !.name = name,
                                        !.arg = RenderValues[name],
                                        !.kwargs = kwargs, !.err = r.err, !.out = r.out]
    /\ UNCHANGED <<impl, loggers, lastCall, emitted, utilVars>>

\* pl.nc(value, **kwargs)
RenderNc(name, kwargs) ==
    /\ LET r == pl_nc(RenderValues[name], kwargs)
       IN  rendered' = [NoRender EXCEPT !.op = "nc", !.name = name,
                                        !.arg = RenderValues[name],
                                        !.kwargs = kwargs, !.err = r.err, !.out = r.out]
    /\ UNCHANGED <<impl, loggers, lastCall, emitted, utilVars>>

\* pl.pa(value, shorter_bool, **kwargs)
RenderPa(name, shorter_bool, kwargs) ==
    /\ LET r == pl_pa(RenderValues[name], shorter_bool, kwargs)
       IN  rendered' = [NoRender EXCEPT !.op = "pa", !.name = name,
                                        !.arg = RenderValues[name],
                                        !.shorter_bool = shorter_bool,
                                        !.kwargs = kwargs, !.err = r.err, !.out = r.out]
    /\ UNCHANGED <<impl, loggers, lastCall, emitted, utilVars>>

\* PrettyLogger._float(f, pad)
RenderFloat(f, pad) ==
    /\ rendered' = [NoRender EXCEPT !.op = "_float", !.arg = f, !.pad = pad,
                                    !.out = _float(f, pad)]
    /\ UNCHANGED <<impl, loggers, lastCall, emitted, utilVars>>

\* Rendering values.
NextRender ==
    \/ \E name \in DOMAIN RenderValues, kwargs \in RenderKwargs : RenderI(name, kwargs)
    \/ \E name \in DOMAIN RenderValues, kwargs \in OmitArgs : RenderNc(name, kwargs)
    \/ \E name \in DOMAIN RenderValues, sb \in BOOLEAN, kwargs \in OmitArgs :
           RenderPa(name, sb, kwargs)
    \/ \E f \in RenderFloats, pad \in {0, 6} : RenderFloat(f, pad)

SpecRender == Init /\ [][NextRender]_vars

\* ordinal(n)
Ordinal(n) ==
    /\ called' = [NoFunction EXCEPT !.op = "ordinal", !.n = n, !.out = ordinal(n)]
    /\ UNCHANGED <<impl, loggers, lastCall, emitted, rendered, check_arg, timer, callback>>

\* Numbering: ordinal of every n up to the bound.
NextOrdinal ==
    \E n \in 0..MaxOrdinal : Ordinal(n)

SpecOrdinal == Init /\ [][NextOrdinal]_vars

\* ca = CheckArg(ignore_none=ignore_none)
NewCheckArg(ignore_none) ==
    /\ check_arg' = [CheckArg(ignore_none) EXCEPT !.op = "__init__"]
    /\ UNCHANGED <<impl, loggers, lastCall, emitted, rendered, called, timer, callback>>

\* ca.cache_options(display_name, attr_name, options) of prettier_log.py, which
\* raises for a name that is registered and otherwise stores the lambda, and
\* ca.cache_mismatch(display_name, attr_name, accepted_values) of prettier.py,
\* which stores it in either case.
CacheOptions(attr_name, options) ==
    /\ LET d == check_arg.d_name2func
           r == IF impl = "prettier_log" /\ attr_name \in DOMAIN d
                THEN [err |-> "ValueError", d |-> d]
                ELSE [err |-> "", d |-> (attr_name :> options) @@ d]
       IN  check_arg' = [check_arg EXCEPT !.d_name2func = r.d, !.op = "cache_options",
                                          !.attr_name = attr_name, !.val = "",
                                          !.options = options, !.silent = FALSE,
                                          !.err = r.err, !.ret = ""]
    /\ UNCHANGED <<impl, loggers, lastCall, emitted, rendered, called, timer, callback>>

\* ca.assert_options(display_name, val, options, silent=silent) of prettier_log.py
AssertOptions(val, options, silent) ==
    /\ impl = "prettier_log"
    /\ LET r == assert_options(check_arg, val, options, silent)
       IN  check_arg' = [check_arg EXCEPT !.op = "assert_options", !.attr_name = "",
                                          !.val = val, !.options = options,
                                          !.silent = silent, !.err = r.err, !.ret = r.ret]
    /\ UNCHANGED <<impl, loggers, lastCall, emitted, rendered, called, timer, callback>>

\* ca(attr_name=val): CheckArg.__call__ with one keyword argument runs the
\* lambda registered for the name, which checks against the options cached
\* with it: assert_options in prettier_log.py, and in prettier.py
\* check_mismatch, which raises under the same conditions and has no silent
\* mode.  __call__ itself returns None.
CheckArgCall(attr_name, val) ==
    /\ LET d == check_arg.d_name2func
           r == IF attr_name \notin DOMAIN d THEN [err |-> "KeyError", ret |-> ""]
                ELSE assert_options(check_arg, val, d[attr_name], FALSE)
       IN  check_arg' = [check_arg EXCEPT !.op = "__call__", !.attr_name = attr_name,
                                          !.val = val,
                                          !.options = IF attr_name \in DOMAIN d
                                                      THEN d[attr_name] ELSE <<>>,
                                          !.silent = FALSE, !.err = r.err,
                                          !.ret = IF r.err = "" THEN "None" ELSE ""]
    /\ UNCHANGED <<impl, loggers, lastCall, emitted, rendered, called, timer, callback>>

\* Argument checking, with two attribute names, three option lists and values
\* in and out of them.
NextCheckArg ==
    \/ \E ignore_none \in BOOLEAN : NewCheckArg(ignore_none)
    \/ \E a \in {"bar_orient", "mode"},
          o \in {<<"v", "h", "vertical", "horizontal">>, <<"h">>, <<"train", "eval">>} :
           CacheOptions(a, o)
    \/ \E v \in {NoneC, "v", "h", "train", "up"},
          o \in {<<"v", "h", "vertical", "horizontal">>, <<"h">>, <<"train", "eval">>},
          silent \in BOOLEAN :
           AssertOptions(v, o, silent)
    \/ \E a \in {"bar_orient", "mode"}, v \in {NoneC, "v", "h", "train", "up"} :
           CheckArgCall(a, v)

SpecCheckArg == Init /\ [][NextCheckArg]_vars

\* callback = MyProgressCallback(train_only=train_only)
NewCallback(train_only) ==
    /\ ~callback.in_train
    /\ callback' = [MyProgressCallback(train_only) EXCEPT !.op = "__init__"]
    /\ UNCHANGED <<impl, loggers, lastCall, emitted, rendered, called, check_arg, timer>>

\* on_train_begin: the trainer starts a run with a TrainerState of its own; the
\* callback does nothing.
OnTrainBegin(max_steps, num_train_epochs, is_local_process_zero) ==
    /\ ~callback.in_train
    /\ callback' = [callback EXCEPT
           !.state = [max_steps |-> max_steps, num_train_epochs |-> num_train_epochs,
                      epoch |-> 0, is_local_process_zero |-> is_local_process_zero],
           !.in_train = TRUE, !.in_epoch = FALSE, !.steps = 0,
           !.op = "on_train_begin", !.err = ""]
    /\ UNCHANGED <<impl, loggers, lastCall, emitted, rendered, called, check_arg, timer>>

\* on_epoch_begin.  An AssertionError of _get_steps_per_epoch ends the run.
OnEpochBegin ==
    /\ callback.in_train /\ ~callback.in_epoch
    /\ callback.state.epoch < callback.state.num_train_epochs
    /\ Len(callback.bars) < MaxBars
    /\ LET st == callback.state
           compute == callback.step_per_epoch \in {-1, 0}
           failed == st.is_local_process_zero /\ compute
                     /\ st.max_steps % st.num_train_epochs # 0
           spe == IF compute THEN st.max_steps \div st.num_train_epochs
                  ELSE callback.step_per_epoch
       IN  IF failed
           THEN callback' = [callback EXCEPT !.in_train = FALSE,
                                             !.op = "on_epoch_begin",
                                             !.err = "AssertionError"]
           ELSE IF st.is_local_process_zero
           THEN callback' = [callback EXCEPT
                    !.step_per_epoch = spe,
                    !.bars = Append(@, [kind |-> "train", total |-> spe,
                                        ep |-> st.epoch + 1, leave |-> TRUE,
                                        n |-> 0, closed |-> FALSE]),
                    !.training_bar = Len(callback.bars) + 1,
                    !.current_step = 0,
                    !.in_epoch = TRUE, !.steps = 0,
                    !.op = "on_epoch_begin", !.err = ""]
           ELSE callback' = [callback EXCEPT
                    !.current_step = 0,
                    !.in_epoch = TRUE, !.steps = 0,
                    !.op = "on_epoch_begin", !.err = ""]
    /\ UNCHANGED <<impl, loggers, lastCall, emitted, rendered, called, check_arg, timer>>

\* on_step_end, once for each step of the epoch under way.
OnStepEnd ==
    /\ callback.in_epoch
    /\ callback.steps < callback.state.max_steps \div callback.state.num_train_epochs
    /\ callback' = [callback EXCEPT
           !.bars = IF callback.state.is_local_process_zero
                    THEN [@ EXCEPT ![callback.training_bar].n = @ + 1] ELSE @,
           !.steps = @ + 1, !.op = "on_step_end", !.err = ""]
    /\ UNCHANGED <<impl, loggers, lastCall, emitted, rendered, called, check_arg, timer>>

\* on_epoch_end; after the last epoch the run is over.
OnEpochEnd ==
    /\ callback.in_epoch
    /\ callback' = [callback EXCEPT
           !.bars = IF callback.state.is_local_process_zero
                    THEN [@ EXCEPT ![callback.training_bar].closed = TRUE] ELSE @,
           !.training_bar = IF callback.state.is_local_process_zero THEN 0 ELSE @,
           !.state.epoch = @ + 1,
           !.in_epoch = FALSE,
           !.in_train = callback.state.epoch + 1 < callback.state.num_train_epochs,
           !.op = "on_epoch_end", !.err = ""]
    /\ UNCHANGED <<impl, loggers, lastCall, emitted, rendered, called, check_arg, timer>>

\* on_prediction_step(eval_dataloader), once for each batch: sized is whether
\* the dataset is Sized, total is len(eval_dataloader).
OnPredictionStep(sized, total) ==
    /\ callback.in_train
    /\ callback.prediction_bar = 0 => Len(callback.bars) < MaxBars
    /\ callback.prediction_bar # 0
           => callback.bars[callback.prediction_bar].n < total
    /\ IF ~callback.train_only /\ callback.state.is_local_process_zero /\ sized
       THEN LET new == callback.prediction_bar = 0
                bars == IF new
                        THEN Append(callback.bars,
                                    [kind |-> "eval", total |-> total,
                                     ep |-> callback.state.epoch,
                                     leave |-> callback.training_bar = 0,
                                     n |-> 0, closed |-> FALSE])
                        ELSE callback.bars
                k == IF new THEN Len(bars) ELSE callback.prediction_bar
            IN  callback' = [callback EXCEPT
                    !.bars = [bars EXCEPT ![k].n = @ + 1],
                    !.prediction_bar = k,
                    !.op = "on_prediction_step", !.err = ""]
       ELSE callback' = [callback EXCEPT !.op = "on_prediction_step", !.err = ""]
    /\ UNCHANGED <<impl, loggers, lastCall, emitted, rendered, called, check_arg, timer>>

\* on_evaluate
OnEvaluate ==
    /\ callback.in_train
    /\ IF ~callback.train_only /\ callback.state.is_local_process_zero
       THEN callback' = [callback EXCEPT
                !.bars = IF callback.prediction_bar # 0
                         THEN [@ EXCEPT ![callback.prediction_bar].closed = TRUE]
                         ELSE @,
                !.prediction_bar = 0,
                !.op = "on_evaluate", !.err = ""]
       ELSE callback' = [callback EXCEPT !.op = "on_evaluate", !.err = ""]
    /\ UNCHANGED <<impl, loggers, lastCall, emitted, rendered, called, check_arg, timer>>

\* A callback through the runs of a trainer: each epoch begins, has its steps
\* and ends, with evaluation in between.
NextCallback ==
    \/ \E train_only \in BOOLEAN : NewCallback(train_only)
    \/ \E max_steps \in {4, 6, 3}, zero \in BOOLEAN : OnTrainBegin(max_steps, 2, zero)
    \/ OnEpochBegin
    \/ OnStepEnd
    \/ OnEpochEnd
    \/ \E sized \in BOOLEAN : OnPredictionStep(sized, 2)
    \/ OnEvaluate

SpecCallback == Init /\ [][NextCallback]_vars

\* LogStep(logger=logger, file_logger=file_logger)(d_log, training=True,
\*         to_console=to_console, to_file=to_file, prefix=prefix)
LogStepCall(n, file_logger, name, to_console, to_file, prefix) ==
    /\ impl = "prettier"
    /\ loggers[n].returned
    /\ emitted' = LogStep(loggers[n], file_logger, RenderValues[name], to_console,
                          to_file, prefix)
    /\ lastCall' = [NoCall EXCEPT !.op = "LogStep", !.logger = n,
                                  !.file_logger = file_logger,
                                  !.to_console = to_console, !.to_file = to_file]
    /\ UNCHANGED <<impl, loggers, rendered, utilVars>>

\* Step logs through a logger that get_logger of prettier.py set up.
NextLogStep ==
    \/ \E name \in Names, kind \in Kinds, fp \in Paths : OldGetLogger(name, kind, fp)
    \/ \E n \in LoggerNames, fl \in BOOLEAN, name \in {"d_float", "d_bool"},
          c \in BOOLEAN, f \in BOOLEAN, prefix \in {<<>>, <<"p">>} :
           LogStepCall(n, fl, name, c, f, prefix)

SpecLogStep == Init /\ [][NextLogStep]_vars

\* timer = Timer(start=start)
NewTimer(start, now) ==
    /\ now >= timer.now
    /\ timer' = Timer(start, now)
    /\ UNCHANGED <<impl, loggers, lastCall, emitted, rendered, called, check_arg, callback>>

\* timer.start()
TimerStart(now) ==
    /\ now >= timer.now
    /\ timer' = [timer EXCEPT !.time_start = now, !.now = now, !.op = "start",
                              !.err = "", !.ret = <<>>]
    /\ UNCHANGED <<impl, loggers, lastCall, emitted, rendered, called, check_arg, callback>>

\* timer.end()
TimerEnd(now) ==
    /\ now >= timer.now
    /\ timer' =
           IF timer.time_start = -1
           THEN [timer EXCEPT !.now = now, !.op = "end",
                              !.err = "Counter not started", !.ret = <<>>]
           ELSE IF timer.time_end # -1
           THEN [timer EXCEPT !.now = now, !.op = "end",
                              !.err = "Counter already ended", !.ret = <<>>]
           ELSE [timer EXCEPT !.time_end = now, !.now = now, !.op = "end", !.err = "",
                              !.ret = fmt_delta(now - timer.time_start)]
    /\ UNCHANGED <<impl, loggers, lastCall, emitted, rendered, called, check_arg, callback>>

\* A timer over a stretch of time.
NextTimer ==
    \/ \E start \in BOOLEAN, now \in 0..MaxTime : NewTimer(start, now)
    \/ \E now \in 0..MaxTime : TimerStart(now)
    \/ \E now \in 0..MaxTime : TimerEnd(now)

SpecTimer == Init /\ [][NextTimer]_vars

\* MlPrettier(ref=dict(epoch=3, step=10)).single(key, val), val one of the
\* ints 1, 2 and the floats 0.5, 1.2346, 12.3456, 3e-05.
Single(key, name) ==
    /\ LET val == [i1 |-> PyInt(1), i2 |-> PyInt(2), f05 |-> PyFloat(<<"5">>, -1),
                   f12346 |-> PyFloat(<<"1", "2", "3", "4", "6">>, 0),
                   f123456 |-> PyFloat(<<"1", "2", "3", "4", "5", "6">>, 1),
                   f3em5 |-> F3em5][name]
           r == single(<< <<<<"e", "p", "o", "c", "h">>, 3>>, <<<<"s", "t", "e", "p">>, 10>> >>,
                       key, val)
       IN  called' = [NoFunction EXCEPT !.op = "single", !.key = key, !.val = val,
                                       !.err = r.err, !.out = r.out]
    /\ UNCHANGED <<impl, loggers, lastCall, emitted, rendered, check_arg, timer, callback>>

\* Prettifying single values: the keys of each branch of single and keys of
\* none.
NextSingle ==
    \E key \in {<<"e", "p", "o", "c", "h">>, <<"s", "t", "e", "p">>,
                <<"g", "l", "o", "b", "a", "l", "_", "s", "t", "e", "p">>,
                <<"l", "o", "s", "s">>, <<"e", "v", "a", "l", "_", "l", "o", "s", "s">>,
                <<"a", "c", "c">>, <<"l", "r">>, <<"p", "p", "l">>,
                <<"t", "i", "m", "e">>, <<"b", "s">>, <<"f", "1">>,
                <<"p", "e", "r", "p", "l", "e", "x", "i", "t", "y">>,
                <<"l", "e", "a", "r", "n", "i", "n", "g", "_", "r", "a", "t", "e">>},
       name \in {"i1", "i2", "f05", "f12346", "f123456", "f3em5"} :
        Single(key, name)

SpecSingle == Init /\ [][NextSingle]_vars

------------------------------------------------------------------------------
(* Properties *)

\* The logger the most recent call was made on.
Called == loggers[lastCall.logger]

Count(hs, Test(_)) == Cardinality({i \in 1..Len(hs) : Test(hs[i])})

IsStdout(h) == h.cls = "StreamHandler"
IsFile(h) == h.cls \in FileHandlerClasses

\* The stdout handlers of a handler list, in order.
StdoutHandlers(hs) == SelectSeq(hs, IsStdout)

\* Positions of the handlers that wrote during the most recent call.
Wrote == {emitted[i].pos : i \in 1..Len(emitted)}

\* The shape get_logger gives a logger of kind 'both' / 'both+ansi'.
IsBoth(hs) ==
    Len(hs) = 2 /\ hs[1].cls = "StreamHandler" /\ hs[2].cls = "CleanAnsiFileHandler"
IsBothAnsi(hs) ==
    /\ Len(hs) = 3 /\ hs[1].cls = "StreamHandler" /\ hs[2].cls = "FileHandler"
    /\ hs[3].cls = "CleanAnsiFileHandler"

\* C1: when get_logger with kind 'stdout' returns, however many such calls came
\* before, the logger has exactly one stdout handler (and no other handler).
C1_OneStdoutHandler ==
    (lastCall.op = "get_logger" /\ lastCall.kind = "stdout" /\ lastCall.err = "")
    => /\ Count(Called.handlers, IsStdout) = 1
       /\ Len(Called.handlers) = 1

\* C1 witness: the second of two consecutive get_logger(kind='stdout') calls
\* has returned.
C1_Witness ==
    /\ lastCall.op = "get_logger" /\ lastCall.kind = "stdout" /\ lastCall.repeat
    /\ Len(Called.handlers) = 1

\* C2: on a logger of kind 'both', a record logged with block='stdout' is never
\* written by the stdout handler, and is written once by the file handler
\* whenever its level passes the logger's and the file handler's level (as every
\* record does under the default level 'debug').
C2_BlockStdout ==
    (lastCall.op = "log" /\ lastCall.rec.block = "stdout" /\ IsBoth(Called.handlers))
    => /\ 1 \notin Wrote
       /\ (lastCall.rec.levelno >= Called.level
           /\ lastCall.rec.levelno >= Called.handlers[2].level)
          => /\ Len(emitted) = 1
             /\ emitted[1].pos = 2
             /\ emitted[1].cls = "CleanAnsiFileHandler"

\* C2 witness: such a record was logged and only the file handler wrote it.
C2_Witness ==
    /\ lastCall.op = "log" /\ lastCall.rec.block = "stdout" /\ IsBoth(Called.handlers)
    /\ Wrote = {2}

\* C3 (as claimed): on a logger of kind 'both' or 'both+ansi', a record logged
\* with block='file' is written by no file handler, ANSI-stripped or
\* ANSI-preserving.
C3_BlockFileClaim ==
    (/\ lastCall.op = "log" /\ lastCall.rec.block = "file"
     /\ (IsBoth(Called.handlers) \/ IsBothAnsi(Called.handlers)))
    => \A i \in 1..Len(emitted) : emitted[i].cls \notin FileHandlerClasses

\* C4 (as claimed): a get_logger or add_log_handler call that raises leaves
\* every logger as it was: handlers, level and propagate flag.
C4_FailureKeepsLoggerClaim ==
    [][(lastCall'.op \in {"get_logger", "add_log_handler"} /\ lastCall'.err # "")
       => loggers' = loggers]_vars

\* C5: get_logging_handler with a kind that includes a file sink and no file
\* path raises ValueError and returns no handler.
C5_NoPathRaises ==
    (/\ lastCall.op = "get_logging_handler"
     /\ lastCall.kind \in {"file", "file-w/-ansi", "both", "both+ansi", "file+ansi"}
     /\ lastCall.file_path = None)
    => lastCall.err = "ValueError" /\ lastCall.ret = <<>>

\* C5 witness: a composite kind was asked for without a path, and it raised.
C5_Witness ==
    /\ lastCall.op = "get_logging_handler" /\ lastCall.kind = "both+ansi"
    /\ lastCall.file_path = None /\ lastCall.err = "ValueError"

\* C6 (as claimed): after drop_file_handler no attached handler is a
\* FileHandler.
C6_DropRemovesAllClaim ==
    lastCall.op = "drop_file_handler" => Count(Called.handlers, IsFile) = 0

\* C7: add_file_handler and drop_file_handler leave the stdout handlers of every
\* logger as they were, in number and in order.
C7_StdoutHandlersKept ==
    [][lastCall'.op \in {"add_file_handler", "drop_file_handler"}
       => \A n \in LoggerNames :
              StdoutHandlers(loggers'[n].handlers) = StdoutHandlers(loggers[n].handlers)]_vars

\* C7 witness: add_file_handler returned, and the logger has its stdout handler
\* next to the new file handler.
C7_Witness ==
    /\ lastCall.op = "add_file_handler" /\ lastCall.err = ""
    /\ Count(Called.handlers, IsStdout) = 1 /\ Count(Called.handlers, IsFile) >= 1

\* The levels of a two-key level mapping.
StdoutEntry == LOG_STR2LOG_LEVEL[lastCall.level.stdout]
FileEntry == LOG_STR2LOG_LEVEL[lastCall.level.file]

TwoKeyMapping ==
    /\ lastCall.op = "get_logger" /\ lastCall.level.tag = "dict"
    /\ lastCall.level.stdout # "" /\ lastCall.level.file # ""
    /\ lastCall.err = ""

\* C8: get_logger returning from a level mapping with a 'stdout' and a 'file' entry sets
\* the logger's level to the smaller of the two, and gives each handler it
\* attaches the entry of its kind (the file entry for both file variants).
C8_LevelMapping ==
    TwoKeyMapping
    => /\ Called.level \in {StdoutEntry, FileEntry}
       /\ Called.level <= StdoutEntry /\ Called.level <= FileEntry
       /\ \A i \in 1..Len(Called.handlers) :
              Called.handlers[i].level =
                  IF IsStdout(Called.handlers[i]) THEN StdoutEntry ELSE FileEntry

\* C8 witness: get_logger(kind='both+ansi', level={stdout: warning, file: debug})
\* returned with its three handlers.
C8_Witness ==
    /\ TwoKeyMapping /\ StdoutEntry # FileEntry
    /\ IsBothAnsi(Called.handlers)

\* The attached handlers whose own level admits the record and whose kind is not
\* its block marker.
Admitting ==
    {i \in 1..Len(Called.handlers) :
        /\ Called.handlers[i].level <= lastCall.rec.levelno
        /\ Called.handlers[i].name # lastCall.rec.block}

\* C9 (as claimed): a record logged is written by exactly the admitting
\* handlers, and by no handler of an ancestor.
C9_ExactlyAdmittingClaim ==
    lastCall.op = "log" => Wrote = Admitting

\* C9 (amended): a record at or above the logger's level is written, once each,
\* by exactly the admitting handlers and by no handler of an ancestor; a record
\* below the logger's level is written by no handler.
C9_ExactlyAdmittingAboveLoggerLevel ==
    lastCall.op = "log"
    => IF lastCall.rec.levelno >= Called.level
       THEN Wrote = Admitting /\ Len(emitted) = Cardinality(Admitting)
       ELSE emitted = <<>>

\* C9 witness: with {stdout: warning, file: debug} on kind 'both+ansi' an info
\* record was written by the two file handlers and not by the console.
C9_Witness ==
    /\ lastCall.op = "log" /\ lastCall.rec.levelno = 20 /\ lastCall.rec.block = ""
    /\ IsBothAnsi(Called.handlers) /\ Called.level = 10
    /\ Called.handlers[1].level = 30
    /\ Wrote = {2, 3}

\* C10 (as claimed): no line written by a handler of kind 'file' holds an ANSI
\* escape sequence.
C10_FileLinesPlainClaim ==
    \A i \in 1..Len(emitted) : emitted[i].name = "file" => ~HasAnsi(emitted[i].line)

\* C11 (as claimed): every handler that is not a 'file' handler writes the line
\* it would write for the record as it was logged, escape sequences intact,
\* whatever handlers come before it on the logger.
C11_OthersWriteUnstrippedClaim ==
    lastCall.op = "log"
    => \A i \in 1..Len(emitted) :
           emitted[i].cls # "CleanAnsiFileHandler"
           => emitted[i].line = Format(Called.handlers[emitted[i].pos], lastCall.rec)

\* The handlers get_logging_handler of prettier_log.py returned.
Returned ==
    /\ impl = "prettier_log" /\ lastCall.op = "get_logging_handler"
    /\ lastCall.err = ""

RetCount(cls) ==
    Cardinality({i \in 1..Len(lastCall.ret) : lastCall.ret[i].cls = cls})

\* C12: get_logging_handler returns for 'both' one stdout and one stripping file
\* handler, for 'both+ansi' one stdout, one ANSI-preserving and one stripping
\* file handler, for 'file+ansi' one ANSI-preserving and one stripping file
\* handler; the stripping handler writes to file_path, the ANSI-preserving one
\* to ansi_file_map(file_path), which by default is file_path + '.ansi'.
C12_CompositeKinds ==
    (Returned /\ lastCall.kind \in {"both", "both+ansi", "file+ansi"})
    => /\ RetCount("StreamHandler") = (IF lastCall.kind = "file+ansi" THEN 0 ELSE 1)
       /\ RetCount("FileHandler") = (IF lastCall.kind = "both" THEN 0 ELSE 1)
       /\ RetCount("CleanAnsiFileHandler") = 1
       /\ Len(lastCall.ret) = (IF lastCall.kind = "both+ansi" THEN 3 ELSE 2)
       /\ \A i \in 1..Len(lastCall.ret) :
              LET h == lastCall.ret[i]
              IN  /\ h.cls = "CleanAnsiFileHandler" => h.path = lastCall.file_path
                  /\ h.cls = "FileHandler" =>
                        h.path = IF lastCall.ansi_file_map = "insert_before_log"
                                 THEN insert_before_log(lastCall.file_path)
                                 ELSE lastCall.file_path \o <<".ansi">>

\* C12 witness: 'both+ansi' with the default mapping returned its three handlers.
C12_Witness ==
    /\ Returned /\ lastCall.kind = "both+ansi" /\ lastCall.ansi_file_map = "None"
    /\ Len(lastCall.ret) = 3 /\ lastCall.ret[2].path = <<"p", ".ansi">>

\* C13 (as claimed): every logger has at most one attached handler of each kind
\* (stdout, file, file-w/-ansi).
C13_OneHandlerPerKindClaim ==
    \A n \in LoggerNames : \A k \in {"stdout", "file", "file-w/-ansi"} :
        Cardinality({i \in 1..Len(loggers[n].handlers) :
                        loggers[n].handlers[i].name = k}) <= 1

\* C14: for every key of the style table, with and without bold, and every
\* text without an escape character, stripping the styled text gives the text
\* back exactly.
C14_StripStyledText ==
    (rendered.op = "s" /\ rendered.c \in DOMAIN key2c)
    => /\ rendered.err = ""
       /\ filter_ansi(rendered.out) = rendered.arg

\* C14 witness: a bold, coloured text that itself looks like the inside of an
\* escape sequence was styled.
C14_Witness ==
    /\ rendered.op = "s" /\ rendered.c = "warn" /\ rendered.bold
    /\ rendered.arg = <<"[", "m">> /\ HasAnsi(rendered.out)

Contains(txt, pat) == \E k \in 1..Len(txt) : StartsAt(txt, k, pat)

\* Whether a value holds the escape character in one of its strings or keys.
RECURSIVE HasEsc(_)
HasEsc(v) ==
    CASE v.t = "str" -> \E k \in 1..Len(v.v) : v.v[k] = ESC
      [] v.t \in {"list", "tuple"} -> \E k \in 1..Len(v.v) : HasEsc(v.v[k])
      [] v.t = "dict" -> \E k \in 1..Len(v.v) :
                            \/ \E j \in 1..Len(v.v[k][1]) : v.v[k][1][j] = ESC
                            \/ HasEsc(v.v[k][2])
      [] OTHER -> FALSE

\* A rendering call made with color off: pl.nc, or pl.i with with_color=False.
ColorOff ==
    \/ rendered.op = "nc"
    \/ rendered.op = "i" /\ "with_color" \in DOMAIN rendered.kwargs
       /\ ~rendered.kwargs["with_color"]

PathSafeWithColor ==
    /\ rendered.op = "i"
    /\ "for_path" \in DOMAIN rendered.kwargs /\ Truthy(rendered.kwargs["for_path"])
    /\ ("with_color" \in DOMAIN rendered.kwargs => rendered.kwargs["with_color"])

\* C16 (as claimed): a call in path-safe mode with color on, for a mapping, a
\* list or a tuple, either raises or returns a string without ANSI codes.
C16_PathSafeNoColorClaim ==
    (PathSafeWithColor /\ rendered.arg.t \in {"dict", "list", "tuple"})
    => (rendered.err # "" \/ ~HasAnsi(rendered.out))

\* Mappings whose values are strings, ints, booleans or such mappings again.
RECURSIVE IsMappingTree(_)
IsMappingTree(v) ==
    /\ v.t = "dict"
    /\ \A k \in 1..Len(v.v) :
           v.v[k][2].t \in {"str", "int", "bool"} \/ IsMappingTree(v.v[k][2])

\* The path-safe form with shortened booleans: {k=v,k=v}, T and F for booleans.
RECURSIVE PathForm(_), PathPairs(_, _)
PathPairs(kvs, k) ==
    IF k > Len(kvs) THEN <<>>
    ELSE (IF k > 1 THEN <<",">> ELSE <<>>)
         \o kvs[k][1] \o <<"=">>
         \o (CASE kvs[k][2].t = "bool" -> IF kvs[k][2].v THEN <<"T">> ELSE <<"F">>
                [] kvs[k][2].t = "dict" -> PathForm(kvs[k][2])
                [] OTHER -> PyStr(kvs[k][2]))
         \o PathPairs(kvs, k + 1)
PathForm(d) == <<"{">> \o PathPairs(d.v, 1) \o <<"}">>

\* C17: pl.pa with shorter_bool renders a mapping as {k=v,k=v} with T or F for
\* every boolean value, also inside nested mappings; {a: True, b: False} gives
\* {a=T,b=F}.
C17_PathSafeShorterBool ==
    (rendered.op = "pa" /\ rendered.shorter_bool /\ IsMappingTree(rendered.arg))
    => /\ rendered.err = ""
       /\ rendered.out = PathForm(rendered.arg)
       /\ rendered.name = "d_bool"
          => rendered.out = <<"{", "a", "=", "T", ",", "b", "=", "F", "}">>

\* C17 witness: pl.pa rendered a mapping with a nested mapping of booleans.
C17_Witness ==
    /\ rendered.op = "pa" /\ rendered.shorter_bool
    /\ rendered.name = "d_nested"
    /\ Contains(rendered.out, <<"b", "=", "{", "a", "=", "T", ",", "b", "=", "F", "}">>)

\* C18 (as claimed): in path-safe rendering every nested mapping and sequence
\* is rendered like the top level: no ': ' and no ', ' (no colon, no space), and
\* with shorter_bool no True or False spelled out.
C18_NestedSameOptionsClaim ==
    (rendered.op = "pa" /\ rendered.err = "")
    => /\ ~Contains(rendered.out, <<" ">>)
       /\ ~Contains(rendered.out, <<":">>)
       /\ rendered.shorter_bool
          => /\ ~Contains(rendered.out, <<"T", "r", "u", "e">>)
             /\ ~Contains(rendered.out, <<"F", "a", "l", "s", "e">>)

\* A mapping without its None entries, nested mappings included.
RECURSIVE WithoutNone(_)
WithoutNone(d) ==
    LET keep == SelectSeq(d.v, LAMBDA kv : kv[2].t # "NoneType")
    IN  PyDict([k \in 1..Len(keep) |->
                   <<keep[k][1],
                     IF keep[k][2].t = "dict" THEN WithoutNone(keep[k][2])
                     ELSE keep[k][2]>>])

\* C19 (as claimed): with omit_none_val set, a mapping renders as the mapping
\* without its None entries does.
C19_OmitNoneClaim ==
    (/\ rendered.op = "nc" /\ rendered.arg.t = "dict" /\ rendered.err = ""
     /\ "omit_none_val" \in DOMAIN rendered.kwargs)
    => rendered.out = pl_nc(WithoutNone(rendered.arg), rendered.kwargs).out

\* The default string form of the float rendered, and that form without one
\* leading zero of its exponent.
FloatForm == FloatStr(rendered.arg)
ExpAt == CHOOSE k \in 1..Len(FloatForm) : FloatForm[k] = "e"
HasExp == \E k \in 1..Len(FloatForm) : FloatForm[k] = "e"
OneZeroLess ==
    IF FloatForm[ExpAt + 2] = "0"
    THEN SubSeq(FloatForm, 1, ExpAt + 1) \o SubSeq(FloatForm, ExpAt + 3, Len(FloatForm))
    ELSE FloatForm

FloatRule ==
    /\ HasExp => rendered.out = OneZeroLess
    /\ (~HasExp /\ rendered.pad = 0) => rendered.out = FloatForm
    /\ rendered.arg = F3em5.v => rendered.out = <<"3", "e", "-", "5">>

\* C20 (as claimed): a float whose default string form has an exponent renders
\* as that form less one leading zero of the exponent, one without renders as
\* its default form when no padding is asked for; 3e-05 gives 3e-5 and 1e+05
\* gives 1e+5.
C20_FloatFormClaim ==
    rendered.op = "_float"
    => /\ FloatRule
       /\ rendered.arg = F1ep5.v => rendered.out = <<"1", "e", "+", "5">>

\* C20 (amended): the same, but 1e+05 has the default form 100000.0, without an
\* exponent, and renders as that.
C20_FloatForm ==
    rendered.op = "_float"
    => /\ FloatRule
       /\ (rendered.arg = F1ep5.v /\ rendered.pad = 0)
          => rendered.out = <<"1", "0", "0", "0", "0", "0", ".", "0">>

\* C20 witness: 3e-05 was rendered as 3e-5.
C20_Witness ==
    /\ rendered.op = "_float" /\ rendered.arg = F3em5.v
    /\ rendered.out = <<"3", "e", "-", "5">>

\* C21: for every n >= 0, ordinal(n) is the decimal form of n followed by 'th'
\* when n mod 100 is 11, 12 or 13, and otherwise by 'st', 'nd', 'rd' for a last
\* digit of 1, 2, 3 and by 'th' for every other last digit.
C21_Ordinal ==
    called.op = "ordinal" =>
        LET n == called.n
            d == n % 10
            suffix == CASE n % 100 \in {11, 12, 13} -> <<"t", "h">>
                        [] d = 1 -> <<"s", "t">>
                        [] d = 2 -> <<"n", "d">>
                        [] d = 3 -> <<"r", "d">>
                        [] OTHER -> <<"t", "h">>
        IN  /\ Len(called.out) >= 3
            /\ SubSeq(called.out, Len(called.out) - 1, Len(called.out)) = suffix
            /\ SubSeq(called.out, 1, Len(called.out) - 2) = IntStr(n)

C21_Witness ==
    called.op = "ordinal" /\ called.n = 112
    /\ called.out = <<"1", "1", "2", "t", "h">>

\* C22: registering an attribute name that is already registered raises an error
\* and leaves the registry unchanged, so that the options registered first for
\* the name still govern every later check of it.
C22_ReRegisterClaim ==
    [][(/\ check_arg'.op = "cache_options"
        /\ check_arg'.attr_name \in DOMAIN check_arg.d_name2func)
       => /\ check_arg'.err # ""
          /\ check_arg'.d_name2func = check_arg.d_name2func]_vars

\* C23: assert_options returns True for a value among the options; for a value
\* not among them it raises, or with silent set returns False without raising;
\* None is accepted without error exactly when the registry ignores None.
C23_AssertOptions ==
    check_arg.op = "assert_options" =>
        LET among == \E k \in DOMAIN check_arg.options :
                         check_arg.options[k] = check_arg.val
            accepted == check_arg.err = "" /\ check_arg.ret = "True"
        IN  IF check_arg.val = NoneC
            THEN accepted <=> check_arg.ignore_none
            ELSE IF among THEN accepted
            ELSE IF check_arg.silent
                 THEN check_arg.err = "" /\ check_arg.ret = "False"
                 ELSE check_arg.err # "" /\ check_arg.ret = ""

C23_Witness ==
    /\ check_arg.op = "assert_options" /\ check_arg.val = NoneC
    /\ ~check_arg.ignore_none /\ check_arg.silent
    /\ check_arg.err = "" /\ check_arg.ret = "False"

\* C24: for each of the five levels, removing the escape sequences from the
\* formatter's colored format string yields its plain format string.
C24_PlainFormatClaim ==
    \A l \in DOMAIN LVL_MAP :
        filter_ansi(formats[impl][TRUE][l]) = formats[impl][FALSE][l]

\* C25: styling a text with a key that is not in the style table is an error:
\* the call fails and returns no string.
C25_UnknownKeyFailsClaim ==
    (rendered.op = "s" /\ rendered.c \notin DOMAIN key2c)
    => rendered.err # "" /\ rendered.out = <<>>

\* The training bars of the callback that are open.
OpenTrainingBars ==
    {i \in 1..Len(callback.bars) :
        callback.bars[i].kind = "train" /\ ~callback.bars[i].closed}

\* C26: on the local main process at most one training bar is open at any time;
\* on_epoch_begin opens a new bar whose total is max_steps / num_train_epochs,
\* every on_step_end of the epoch advances that bar by one, on_epoch_end closes
\* it and resets training_bar to None; with train_only no prediction bar is
\* ever created.
C26_ProgressBarsClaim ==
    [][callback'.state.is_local_process_zero =>
        /\ Cardinality(OpenTrainingBars') <= 1
        /\ (callback'.op = "on_epoch_begin" /\ callback'.err = "")
           => /\ callback'.training_bar = Len(callback.bars) + 1
              /\ OpenTrainingBars' = {callback'.training_bar}
              /\ callback'.bars[callback'.training_bar].n = 0
              /\ callback'.bars[callback'.training_bar].total
                     * callback'.state.num_train_epochs = callback'.state.max_steps
        /\ callback'.op = "on_step_end"
           => /\ callback'.training_bar = callback.training_bar
              /\ callback'.bars[callback.training_bar].n
                     = callback.bars[callback.training_bar].n + 1
        /\ callback'.op = "on_epoch_end"
           => /\ callback'.training_bar = 0
              /\ callback'.bars[callback.training_bar].closed
        /\ callback'.train_only
           => \A i \in 1..Len(callback'.bars) : callback'.bars[i].kind # "eval"
      ]_vars

C28_AcceptedKindsAttachClaim ==
    (/\ lastCall.op = "get_logger"
     /\ lastCall.kind \in {"stdout", "file-write", "both", "both+ansi"}
     /\ impl = "prettier" => lastCall.kind # "both+ansi"
     /\ lastCall.file_path # None)
    => /\ lastCall.err = ""
       /\ Len(Called.handlers) >= 1

\* C29: end() on a timer that was never started raises 'Counter not started', a
\* second end() raises 'Counter already ended', and a start() followed by end()
\* after the timer has ended once reports the new elapsed time.
C29_TimerClaim ==
    [][timer'.op = "end" =>
        /\ timer.time_start = -1 => timer'.err = "Counter not started"
        /\ (timer.op = "end" /\ timer.err = "")
           => timer'.err = "Counter already ended"
        /\ (timer.op = "start" /\ timer.time_end # -1)
           => /\ timer'.err = ""
              /\ timer'.ret = fmt_delta(timer'.now - timer.time_start)
      ]_vars

\* C30: MlPrettier.single returns the value unchanged for a key that is no
\* no-prefix key and contains none of 'loss', a metric name, 'learning_rate',
\* 'lr', 'perplexity', 'ppl'; only keys containing 'perplexity' or 'ppl' get
\* the two-decimal perplexity formatting.
C30_SingleOtherKeysClaim ==
    called.op = "single" =>
        LET key == called.key
            Has(pat) == \E k \in 1..(Len(key) - Len(pat) + 1) :
                            SubSeq(key, k, k + Len(pat) - 1) = pat
            ppl == Has(<<"p", "p", "l">>)
                   \/ Has(<<"p", "e", "r", "p", "l", "e", "x", "i", "t", "y">>)
            other ==
                /\ key \notin {<<"e", "p", "o", "c", "h">>, <<"s", "t", "e", "p">>,
                                <<"g", "l", "o", "b", "a", "l", "_", "s", "t", "e", "p">>}
                /\ ~Has(<<"l", "o", "s", "s">>)
                /\ \A m \in {<<"a", "c", "c">>, <<"f", "1">>, <<"a", "u", "c">>,
                              <<"r", "e", "c", "a", "l", "l">>,
                              <<"p", "r", "e", "c", "i", "s", "i", "o", "n">>} : ~Has(m)
                /\ ~Has(<<"l", "r">>)
                /\ ~Has(<<"l", "e", "a", "r", "n", "i", "n", "g", "_", "r", "a", "t", "e">>)
                /\ ~ppl
        IN  /\ other => /\ called.err = ""
                        /\ called.out.t = called.val.t
                        /\ called.out.v = called.val.v
            /\ (/\ called.err = "" /\ called.out.t = "str"
                /\ called.out.v = Fixed(Scaled(called.val, 2), 2, 0)) => ppl

====
